---- MODULE Spec2Model ----
(***************************************************************************)
(* Citation knowledge graph: the recommender notebook (paper extraction,   *)
(* citation matrix, classifier, recommend) and the impact-ranking notebook *)
(* Task3.ipynb (PageRank / HITS / eigenvector centrality, min-max          *)
(* normalisation, fusion, ranking).                                        *)
(*                                                                         *)
(* Three specifications share the variables:                               *)
(*   SpecLoad  the extraction loop and the citation-matrix loop            *)
(*   SpecRec   the recommendation driver over a loaded corpus              *)
(*   SpecRank  the cells of Task3.ipynb                                    *)
(* Python indices are kept 0-based (paper_index, citation_matrix); Python  *)
(* lists are sequences, so papers[i] of the code is papers[i + 1] here.    *)
(***************************************************************************)
EXTENDS Integers, Sequences, FiniteSets, TLC

VARIABLES
    pc,                \* position in the notebook
    error,             \* "none", or the exception that stopped the notebook
    g_abstracts,       \* the graph g: g_abstracts[k] is ARXIV.abstract of the Paper subject ARXIV[k]
    papers,            \* list of {'paper_id', 'title', 'abstract'}
    paper_index,       \* dict paper_id -> index
    embeddings,        \* list of embedding vectors, one per paper
    citation_matrix,   \* (i, j) -> 0 / 1, or <<>> before the matrix is created
    edges_seen,        \* the (s, o) pairs g.subject_objects(ARXIV.cites) has yielded so far
    n_edges,           \* how many pairs it has yielded, repetitions counted
    model,             \* the fitted LogisticRegression: [coef, intercept]
    query,             \* the input paper the driver loop handed to recommend last
    recommendations,   \* what recommend returned for it
    scores_out,        \* the scores recommend sorted by (kept for the claims)
    nx_nodes,          \* nodes of nx_graph, in insertion order
    pagerank_scores,   \* dict as a sequence of <<key, value>> in dict order
    hub_scores,
    authority_scores,
    centrality,
    normalized_scores, \* list of three dicts
    final_scores,      \* dict as a sequence of <<key, value>>
    top_papers_final,  \* the ranking
    g_triples,         \* Task3.ipynb: the triples <<s, p, o>> of g in iteration order
    nx_edges,          \* edges of nx_graph
    G_paper_simple,    \* [nodes, edges] of the graph handed to eigenvector centrality
    similarities,      \* (i, j) -> cosine similarity of papers i and j
    pairs,             \* list of (i, j)
    pair_similarities, \* the feature column, one value per pair
    y,                 \* the label column
    split,             \* [train, test]: the rows train_test_split put in each part
    fit_log,           \* the (X, y) of every LogisticRegression.fit call so far
    embed_calls,       \* text -> how often get_bert_embedding was called on it
    input_file,        \* the lines of the new-papers jsonl file
    input_papers,      \* the list load_input_data returned
    printed            \* what the driver loop has printed, one entry per input paper

loadVars == <<g_abstracts, papers, paper_index, embeddings, citation_matrix,
              edges_seen, n_edges>>
recVars  == <<model, query, recommendations, scores_out>>
rankVars == <<nx_nodes, pagerank_scores, hub_scores, authority_scores,
              centrality, normalized_scores, final_scores, top_papers_final>>
graphVars == <<g_triples, nx_edges, G_paper_simple>>
trainVars == <<similarities, pairs, pair_similarities, y, split, fit_log>>
driverVars == <<input_file, input_papers, printed>>
vars     == <<pc, error, loadVars, recVars, rankVars, graphVars, trainVars, embed_calls,
              driverVars>>

\* The driver cell has not been reached: no input file has been read.
NoDriver ==
    /\ input_file = <<>>
    /\ input_papers = <<>>
    /\ printed = <<>>

-----------------------------------------------------------------------------
(* Bounds of the model.                                                    *)

MaxPapers == 2     \* Paper subjects in g, for the loading loops
MaxEdges  == 2     \* pairs yielded by g.subject_objects(ARXIV.cites)

-----------------------------------------------------------------------------
(* RDF terms.  str(term) is a sequence of tokens: the namespace prefix is  *)
(* one token, the rest of the string is another.                           *)

ARXIV == "http://arxiv.org/"

\* The local names of the identifiers, and the number a name stands at.
IdNames == <<"1", "2", "3", "4", "5", "6", "7", "8", "9">>
IdNumber(name) == CHOOSE k \in 1..Len(IdNames) : IdNames[k] = name

ArxivUri(k) == [lit |-> FALSE, str |-> <<ARXIV, IdNames[k]>>]
LiteralTerm(k) == [lit |-> TRUE, str |-> <<IdNames[k]>>]

\* str(s).replace(str(ARXIV), ""): every occurrence of the prefix is removed.
StripNamespace(term) == SelectSeq(term.str, LAMBDA tok : tok # ARXIV)

\* g.subjects(RDF.type, ARXIV.Paper): the Paper subjects of g.
PaperSubjects == { ArxivUri(k) : k \in 1..Len(g_abstracts) }

\* The terms that can stand in a cites triple: the Paper subjects, one URI
\* of the namespace that is no Paper of g, and (as object) a literal whose
\* text is the identifier of the first paper.
UnknownUri == ArxivUri(Len(g_abstracts) + 1)
CitingTerms == PaperSubjects \cup {UnknownUri}
CitedTerms == CitingTerms \cup {LiteralTerm(1)}

\* g.value(s, ARXIV.title), g.value(s, ARXIV.abstract)
TitleOf(s) == <<"title", s.str[2]>>
AbstractOf(s) == g_abstracts[IdNumber(s.str[2])]

-----------------------------------------------------------------------------
(* The embedding provider.  Texts are opaque; the encoder is a fixed       *)
(* function from text to a vector (here of dimension 2).                   *)

Texts == {"t0", "t1", "t2", "t3"}

bert_model(text) ==
    CASE text = "t1" -> <<5, 0>>
      [] text = "t2" -> <<3, 4>>
      [] text = "t3" -> <<0, 5>>
      [] OTHER       -> <<0, 0>>

get_bert_embedding(text) == bert_model(text)

\* The objects the global names of the notebook are bound to.  The encoder
\* AutoModel.from_pretrained returns is BertEncoder; `model` is bound to it
\* first and `bert_model = model.to(device)` is the same object, never bound
\* again.  `model = LogisticRegression()` binds `model` to a classifier,
\* which is UnfittedClassifier until fit has returned.
BertEncoder == [kind |-> "BertModel"]
UnfittedClassifier == [kind |-> "LogisticRegression"]
Globals == [model |-> model, bert_model |-> BertEncoder]

\* A variant of get_bert_embedding that calls the object named `model`.
EncoderNameModel == "model"

\* The global name the body of get_bert_embedding calls.
EncoderName == "bert_model"

\* The call bert_model(**inputs) reaches an object that can be called.
EncoderCallable == Globals[EncoderName] = BertEncoder

\* The object has predict_proba and has been fitted.
IsFitted(object) == DOMAIN object = {"coef", "intercept"}

\* The log of the calls of get_bert_embedding: text -> number of calls.  The
\* log is kept where it starts as ZeroCalls and not kept where it starts as
\* NoCalls.
NoCalls == <<>>
ZeroCalls == [t \in Texts |-> 0]

\* A variant of the log for a provider that answers a text it has seen from
\* a cache.
LoggedCached(calls, text) ==
    IF DOMAIN calls = {} \/ calls[text] > 0 THEN calls
    ELSE [calls EXCEPT ![text] = @ + 1]

\* The log after one more call of get_bert_embedding(text).
Logged(calls, text) ==
    IF DOMAIN calls = {} THEN calls ELSE [calls EXCEPT ![text] = @ + 1]

RECURSIVE SumOver(_, _)
SumOver(calls, texts) ==
    IF texts = {} THEN 0
    ELSE LET t == CHOOSE x \in texts : TRUE
         IN calls[t] + SumOver(calls, texts \ {t})

\* How many calls the log holds.
TotalCalls(calls) == SumOver(calls, DOMAIN calls)

-----------------------------------------------------------------------------
(* Paper extraction loop, one iteration for subject s.                     *)

DictPut(d, k, v) == [x \in (DOMAIN d) \cup {k} |-> IF x = k THEN v ELSE d[x]]

\* A variant that stores the index after the paper is appended.
ExtractOneIndexAfterAppend(st, s, abstract) ==
    LET paper_id == StripNamespace(s)
    IN [paper_index |-> DictPut(st.paper_index, paper_id, Len(st.papers) + 1),
        papers      |-> Append(st.papers,
                               [paper_id |-> paper_id,
                                title    |-> TitleOf(s),
                                abstract |-> abstract]),
        embeddings  |-> Append(st.embeddings, get_bert_embedding(abstract)),
        embed_calls |-> Logged(st.embed_calls, abstract)]

ExtractOne(st, s, abstract) ==
    LET paper_id == StripNamespace(s)
    IN [paper_index |-> DictPut(st.paper_index, paper_id, Len(st.papers)),
        papers      |-> Append(st.papers,
                               [paper_id |-> paper_id,
                                title    |-> TitleOf(s),
                                abstract |-> abstract]),
        embeddings  |-> Append(st.embeddings, get_bert_embedding(abstract)),
        embed_calls |-> Logged(st.embed_calls, abstract)]

EmptyCorpus == [paper_index |-> <<>>, papers |-> <<>>, embeddings |-> <<>>,
                embed_calls |-> ZeroCalls]

\* Subjects the loop has not reached yet.
PendingSubjects == { s \in PaperSubjects : StripNamespace(s) \notin DOMAIN paper_index }

\* One iteration of the loop.  Calling an object that is no encoder raises
\* TypeError, after paper_index and papers have been written.
ExtractPaper ==
    /\ pc = "extract"
    /\ \E s \in PendingSubjects :
         LET st == ExtractOne([paper_index |-> paper_index, papers |-> papers,
                               embeddings |-> embeddings,
                               embed_calls |-> embed_calls], s, AbstractOf(s))
         IN /\ paper_index' = st.paper_index
            /\ papers' = st.papers
            /\ IF EncoderCallable
               THEN /\ embeddings' = st.embeddings
                    /\ embed_calls' = st.embed_calls
                    /\ UNCHANGED <<pc, error>>
               ELSE /\ error' = "TypeError"
                    /\ pc' = "failed"
                    /\ UNCHANGED <<embeddings, embed_calls>>
    /\ UNCHANGED <<driverVars, graphVars, trainVars, g_abstracts, citation_matrix,
                   edges_seen, n_edges, recVars, rankVars>>

-----------------------------------------------------------------------------
(* Citation matrix.                                                        *)

\* lil_matrix((len(papers), len(papers))): all zero.
lil_matrix(n) == [ij \in (0..(n - 1)) \X (0..(n - 1)) |-> 0]

\* A variant that starts the citation cell while the extraction loop still
\* has subjects to visit.
CreateMatrixEarly ==
    /\ pc = "extract"
    /\ citation_matrix' = lil_matrix(Len(papers))
    /\ pc' = "cite"
    /\ UNCHANGED <<driverVars, graphVars, trainVars, embed_calls, error, g_abstracts, papers, paper_index, embeddings, edges_seen,
                   n_edges, recVars, rankVars>>

CreateMatrix ==
    /\ pc = "extract"
    /\ PendingSubjects = {}
    /\ citation_matrix' = lil_matrix(Len(papers))
    /\ pc' = "cite"
    /\ UNCHANGED <<driverVars, graphVars, trainVars, embed_calls, error, g_abstracts, papers, paper_index, embeddings, edges_seen,
                   n_edges, recVars, rankVars>>

\* Variants of the guard that test one identifier only.
BothKnownCitingOnly(index, paper_id, cited_paper_id) == paper_id \in DOMAIN index
BothKnownCitedOnly(index, paper_id, cited_paper_id) == cited_paper_id \in DOMAIN index

\* The guard of the loop body.
BothKnown(index, paper_id, cited_paper_id) ==
    paper_id \in DOMAIN index /\ cited_paper_id \in DOMAIN index

\* Variants of the loop body: row and column exchanged; the entry counted up.
CiteOneSwapped(index, st, s, o) ==
    LET paper_id == StripNamespace(s)
        cited_paper_id == StripNamespace(o)
    IN IF BothKnown(index, paper_id, cited_paper_id)
       THEN [matrix |-> [st.matrix EXCEPT
                 ![<<index[cited_paper_id], index[paper_id]>>] = 1],
             error |-> st.error]
       ELSE st

CiteOneCounting(index, st, s, o) ==
    LET paper_id == StripNamespace(s)
        cited_paper_id == StripNamespace(o)
    IN IF BothKnown(index, paper_id, cited_paper_id)
       THEN [matrix |-> [st.matrix EXCEPT
                 ![<<index[paper_id], index[cited_paper_id]>>] = @ + 1],
             error |-> st.error]
       ELSE st

\* A variant that assigns the whole row: the entries the row had are lost.
CiteOneRowReset(index, st, s, o) ==
    LET paper_id == StripNamespace(s)
        cited_paper_id == StripNamespace(o)
    IN IF BothKnown(index, paper_id, cited_paper_id)
       THEN [matrix |-> [ij \in DOMAIN st.matrix |->
                            IF ij[1] # index[paper_id] THEN st.matrix[ij]
                            ELSE IF ij[2] = index[cited_paper_id] THEN 1 ELSE 0],
             error |-> st.error]
       ELSE st

\* One iteration of the loop over g.subject_objects(ARXIV.cites).  A lookup
\* of a key the dict does not hold raises KeyError.
CiteOne(index, st, s, o) ==
    LET paper_id == StripNamespace(s)
        cited_paper_id == StripNamespace(o)
    IN IF BothKnown(index, paper_id, cited_paper_id)
       THEN IF {paper_id, cited_paper_id} \subseteq DOMAIN index
            THEN [matrix |-> [st.matrix EXCEPT
                     ![<<index[paper_id], index[cited_paper_id]>>] = 1],
                  error |-> st.error]
            ELSE [matrix |-> st.matrix, error |-> "KeyError"]
       ELSE st

CiteEdgeOf(s, o) ==
    /\ pc = "cite"
    /\ n_edges < MaxEdges
    /\ LET st == CiteOne(paper_index, [matrix |-> citation_matrix, error |-> error], s, o)
       IN /\ citation_matrix' = st.matrix
          /\ error' = st.error
          /\ pc' = IF st.error = "none" THEN "cite" ELSE "failed"
          /\ edges_seen' = edges_seen \cup {<<s, o>>}
          /\ n_edges' = n_edges + 1
    /\ UNCHANGED <<driverVars, graphVars, trainVars, embed_calls, g_abstracts, papers, paper_index, embeddings, recVars, rankVars>>

CiteEdge == \E s \in CitingTerms, o \in CitedTerms : CiteEdgeOf(s, o)

\* citation_matrix.tocsr(): the same entries in another storage format.
Tocsr ==
    /\ pc = "cite"
    /\ pc' = "loaded"
    /\ UNCHANGED <<driverVars, graphVars, trainVars, embed_calls, error, loadVars, recVars, rankVars>>

-----------------------------------------------------------------------------
(* Properties of the loading loops (SpecLoad).                             *)

LoadedIds == { papers[i].paper_id : i \in 1..Len(papers) }
MatrixBuilt == pc \in {"cite", "loaded"}
Indices == 0..(Len(papers) - 1)

\* An edge as the identifiers it names.
CitingId(e) == StripNamespace(e[1])
CitedId(e) == StripNamespace(e[2])
EdgeIsKnown(e) == CitingId(e) \in LoadedIds /\ CitedId(e) \in LoadedIds
UnknownEdges == { e \in edges_seen : ~EdgeIsKnown(e) }

\* C4: every entry of the citation matrix is 0 or 1, and entry (i, j) is 1
\* exactly when the edges loaded so far hold an edge from the identifier of
\* paper i to the identifier of paper j.
C4_MatrixIsEdgeSet ==
    MatrixBuilt =>
        \A i \in Indices, j \in Indices :
            /\ citation_matrix[<<i, j>>] \in {0, 1}
            /\ citation_matrix[<<i, j>>] = 1 <=>
                 \E e \in edges_seen : /\ CitingId(e) = papers[i + 1].paper_id
                                       /\ CitedId(e) = papers[j + 1].paper_id

C4_Witness ==
    /\ pc = "loaded"
    /\ Len(papers) = 2
    /\ UnknownEdges # {}
    /\ citation_matrix[<<0, 1>>] = 1
    /\ citation_matrix[<<1, 0>>] = 0

\* C5: an edge with an identifier that is no loaded paper raises nothing,
\* leaves every entry of the matrix as it was and leaves the loop running.
C5_UnknownEdgeDropped ==
    [][\A s \in CitingTerms, o \in CitedTerms :
          (~EdgeIsKnown(<<s, o>>) /\ pc = "cite" /\ n_edges' = n_edges + 1
             /\ edges_seen' = edges_seen \cup {<<s, o>>})
          => (citation_matrix' = citation_matrix /\ error' = "none" /\ pc' = "cite")]_vars

C5_Witness ==
    /\ pc = "cite"
    /\ Len(papers) > 0
    /\ n_edges = 2
    /\ Cardinality(UnknownEdges) = 1
    /\ \E i \in Indices, j \in Indices : citation_matrix[<<i, j>>] = 1

\* C6 as stated: loading fails with IntegrityError once an edge names an
\* identifier that is no loaded paper.
C6_FailsWithIntegrityError == UnknownEdges # {} => error = "IntegrityError"

\* C6 as amended: such an edge never makes loading fail; the load runs to
\* its end without an error.
C6_LoadNeverFails == UnknownEdges # {} => (error = "none" /\ MatrixBuilt)

C6_Witness == pc = "loaded" /\ UnknownEdges # {} /\ error = "none" /\ Len(papers) > 0

\* The matrix the loop body builds from a set of edges, each taken once.
RECURSIVE MatrixOfSet(_, _)
MatrixOfSet(edges, st) ==
    IF edges = {} THEN st
    ELSE LET e == CHOOSE x \in edges : TRUE
         IN MatrixOfSet(edges \ {e}, CiteOne(paper_index, st, e[1], e[2]))

\* C7: the matrix built from the edges as yielded, repetitions included, is
\* the matrix built from the distinct edges, and no entry exceeds 1.
C7_DuplicatesCollapse ==
    MatrixBuilt =>
        /\ citation_matrix =
             MatrixOfSet(edges_seen, [matrix |-> lil_matrix(Len(papers)),
                                      error |-> "none"]).matrix
        /\ \A ij \in DOMAIN citation_matrix : citation_matrix[ij] <= 1

C7_Witness ==
    /\ pc = "loaded"
    /\ n_edges > Cardinality(edges_seen)
    /\ \E e \in edges_seen : EdgeIsKnown(e)

-----------------------------------------------------------------------------
NoRec == [coef |-> 0, intercept |-> 0]

\* The variables of Task3.ipynb and of the training cells before these run.
NoGraph ==
    /\ g_triples = <<>>
    /\ nx_edges = {}
    /\ G_paper_simple = [nodes |-> <<>>, edges |-> {}]
NoTraining ==
    /\ similarities = <<>>
    /\ pairs = <<>>
    /\ pair_similarities = <<>>
    /\ y = <<>>
    /\ split = [train |-> <<>>, test |-> <<>>]
    /\ fit_log = <<>>

InitLoad ==
    /\ pc = "extract"
    /\ error = "none"
    /\ \E n \in 0..MaxPapers : g_abstracts \in [1..n -> {"t1", "t2"}]
    /\ papers = <<>>
    /\ paper_index = <<>>
    /\ embeddings = <<>>
    /\ citation_matrix = <<>>
    /\ edges_seen = {}
    /\ n_edges = 0
    /\ model = BertEncoder
    /\ query = ""
    /\ recommendations = <<>>
    /\ scores_out = <<>>
    /\ nx_nodes = <<>>
    /\ pagerank_scores = <<>>
    /\ hub_scores = <<>>
    /\ authority_scores = <<>>
    /\ centrality = <<>>
    /\ normalized_scores = <<>>
    /\ final_scores = <<>>
    /\ top_papers_final = <<>>
    /\ NoGraph
    /\ NoTraining
    /\ NoDriver
    /\ embed_calls = ZeroCalls

NextLoad == ExtractPaper \/ CreateMatrix \/ CiteEdge \/ Tocsr

SpecLoad == InitLoad /\ [][NextLoad]_vars

-----------------------------------------------------------------------------
(* Numbers.  A cosine similarity is held in units of 1/SimScale; a         *)
(* probability and a sort key are rationals <<numerator, denominator>>     *)
(* with a positive denominator.                                            *)

SimScale == 5

Dot(u, v) == u[1] * v[1] + u[2] * v[2]
\* The Euclidean norm (the vectors of the model have integer norms).
Norm(v) == CHOOSE r \in 0..(Dot(v, v)) : r * r = Dot(v, v)

\* A variant that gives a row the similarity 1 to itself whatever its norm.
cosine_similarityUnitDiagonal(u, v) ==
    IF u = v THEN SimScale
    ELSE IF Norm(u) = 0 \/ Norm(v) = 0 THEN 0
    ELSE (Dot(u, v) * SimScale) \div (Norm(u) * Norm(v))

\* sklearn's cosine_similarity of two rows: each row is divided by its norm,
\* a row of norm zero is left as it is, then the dot product is taken.
cosine_similarity(u, v) ==
    IF Norm(u) = 0 \/ Norm(v) = 0 THEN 0
    ELSE (Dot(u, v) * SimScale) \div (Norm(u) * Norm(v))

RatLess(a, b) == a[1] * b[2] < b[1] * a[2]
RatEq(a, b) == a[1] * b[2] = b[1] * a[2]
RatLeq(a, b) == a[1] * b[2] <= b[1] * a[2]
RatNeg(a) == <<0 - a[1], a[2]>>

RECURSIVE Pow2(_)
Pow2(n) == IF n = 0 THEN 1 ELSE 2 * Pow2(n - 1)

\* A variant that returns column 0, the probability of the class 0.
predict_probaClass0(m, sim) ==
    LET z == m.coef * sim + m.intercept
    IN IF z >= 0 THEN <<1, Pow2(z) + 1>> ELSE <<Pow2(0 - z), 1 + Pow2(0 - z)>>

\* LogisticRegression.predict_proba(X)[:, 1] for one sample: the logistic
\* function of coef * x + intercept (logarithms to base 2, coef per unit of
\* similarity 1/SimScale).
predict_proba(m, sim) ==
    LET z == m.coef * sim + m.intercept
    IN IF z >= 0 THEN <<Pow2(z), Pow2(z) + 1>> ELSE <<1, 1 + Pow2(0 - z)>>

-----------------------------------------------------------------------------
(* sorted(): a stable sort of <<item, key>> pairs by ascending key.        *)

\* A variant that puts an element before the elements of equal key.
RECURSIVE InsertBeforeEqual(_, _)
InsertBeforeEqual(s, x) ==
    IF s = <<>> THEN <<x>>
    ELSE IF RatLeq(x[2], s[1][2]) THEN <<x>> \o s
         ELSE <<s[1]>> \o InsertBeforeEqual(Tail(s), x)

\* x goes behind every element whose key is not greater than its own.
RECURSIVE InsertSorted(_, _)
InsertSorted(s, x) ==
    IF s = <<>> THEN <<x>>
    ELSE IF RatLess(x[2], s[1][2]) THEN <<x>> \o s
         ELSE <<s[1]>> \o InsertSorted(Tail(s), x)

RECURSIVE SortedByKey(_)
SortedByKey(s) ==
    IF s = <<>> THEN <<>>
    ELSE InsertSorted(SortedByKey(SubSeq(s, 1, Len(s) - 1)), s[Len(s)])

\* s[:n]
Take(s, n) == SubSeq(s, 1, IF Len(s) < n THEN Len(s) ELSE n)

-----------------------------------------------------------------------------
(* recommend(paper)                                                        *)

TopK == 5

\* A variant of the slice that returns one recommendation fewer.
ReturnedSliceShort(ranked) == Take(ranked, TopK - 1)

\* recommendations[:5]
ReturnedSlice(ranked) == Take(ranked, TopK)

\* A variant of the sort key without the minus sign.
SortKeyPlain(score) == score

\* key=lambda x: -x[1]
SortKey(score) == RatNeg(score)

\* model.predict_proba(pair_similarities)[:, 1], one score per corpus paper.
ScoresFor(m, embs, abstract) ==
    LET paper_vector == get_bert_embedding(abstract)
    IN [i \in 1..Len(embs) |-> predict_proba(m, cosine_similarity(paper_vector, embs[i]))]

\* sorted(zip(papers, scores), key=lambda x: -x[1]), as the sequence of the
\* positions of the papers in the corpus (1-based).
RankedPositions(scores) ==
    LET keyed == [i \in 1..Len(scores) |-> <<i, SortKey(scores[i])>>]
        sorted == SortedByKey(keyed)
    IN [k \in 1..Len(sorted) |-> sorted[k][1]]

recommend(m, ps, embs, abstract) ==
    LET ranked == RankedPositions(ScoresFor(m, embs, abstract))
        top == ReturnedSlice(ranked)
    IN [k \in 1..Len(top) |-> <<ps[top[k]].paper_id, ps[top[k]].abstract>>]

MaxQueries == 2

\* A variant of recommend that keeps the embedding of the query in the list
\* of the corpus embeddings.
RecommendKeepingQuery ==
    /\ pc = "driver"
    /\ TotalCalls(embed_calls) < Len(papers) + MaxQueries
    /\ \E abstract \in Texts :
         /\ query' = abstract
         /\ scores_out' = ScoresFor(model, embeddings, abstract)
         /\ recommendations' = recommend(model, papers, embeddings, abstract)
         /\ embed_calls' = Logged(embed_calls, abstract)
         /\ embeddings' = Append(embeddings, get_bert_embedding(abstract))
    /\ UNCHANGED <<driverVars, graphVars, trainVars, pc, error, g_abstracts, papers, paper_index,
                   citation_matrix, edges_seen, n_edges, model, rankVars>>

\* One iteration of the driver loop: recommend(paper) for the next input
\* paper, a record with the abstract text `abstract`; recommend calls
\* get_bert_embedding on it.  Where the call log is kept, the input file
\* holds at most MaxQueries papers.
\* Calling an object that is no encoder raises TypeError; predict_proba of
\* an object that is no fitted classifier raises AttributeError.
Recommend ==
    /\ pc = "driver"
    /\ TotalCalls(embed_calls) < Len(papers) + MaxQueries
    /\ \E abstract \in Texts :
         /\ query' = abstract
         /\ CASE ~EncoderCallable ->
                  /\ error' = "TypeError"
                  /\ pc' = "failed"
                  /\ UNCHANGED <<scores_out, recommendations, embed_calls>>
              [] EncoderCallable /\ ~IsFitted(Globals["model"]) ->
                  /\ error' = "AttributeError"
                  /\ pc' = "failed"
                  /\ embed_calls' = Logged(embed_calls, abstract)
                  /\ UNCHANGED <<scores_out, recommendations>>
              [] OTHER ->
                  /\ scores_out' = ScoresFor(Globals["model"], embeddings, abstract)
                  /\ recommendations' =
                       recommend(Globals["model"], papers, embeddings, abstract)
                  /\ embed_calls' = Logged(embed_calls, abstract)
                  /\ UNCHANGED <<pc, error>>
    /\ UNCHANGED <<driverVars, graphVars, trainVars, loadVars, model, rankVars>>

-----------------------------------------------------------------------------
(* The state in which the driver loop starts: a corpus extracted from g,   *)
(* the citation matrix of g, a fitted classifier.                          *)

MaxCorpus == 6

\* The extraction loop run over the Paper subjects ARXIV[1..n] in this order.
RECURSIVE Extracted(_, _)
Extracted(abstracts, n) ==
    IF n = 0 THEN EmptyCorpus
    ELSE ExtractOne(Extracted(abstracts, n - 1), ArxivUri(n), abstracts[n])

\* The classifiers LogisticRegression.fit may return.
Classifiers == { [coef |-> c, intercept |-> b] : c \in {-1, 0, 1, 2}, b \in {-1} }

-----------------------------------------------------------------------------
(* Properties of the loading loops that compare a run with the run over    *)
(* the Paper subjects in the order ARXIV[1], ARXIV[2], ... (SpecLoad).     *)

\* What that run builds: its corpus, and its matrix from the edges seen.
CanonicalCorpus == Extracted(g_abstracts, Len(g_abstracts))
\* The same, with the look-up table of that run.
RECURSIVE MatrixOver(_, _, _)
MatrixOver(index, edges, st) ==
    IF edges = {} THEN st
    ELSE LET e == CHOOSE x \in edges : TRUE
         IN MatrixOver(index, edges \ {e}, CiteOne(index, st, e[1], e[2]))

CanonicalCitations ==
    MatrixOver(CanonicalCorpus.paper_index, edges_seen,
               [matrix |-> lil_matrix(Len(g_abstracts)), error |-> "none"]).matrix

\* C23 as stated: whatever order g yields its papers and edges in, the
\* paper list, the look-up table and the citation matrix are those of the
\* run that visits the papers in the order ARXIV[1], ARXIV[2], ...
C23_SameOrderWhateverEnumeration ==
    pc = "loaded" =>
        /\ papers = CanonicalCorpus.papers
        /\ paper_index = CanonicalCorpus.paper_index
        /\ citation_matrix = CanonicalCitations

\* C23 as amended: the paper order is the order g yields the papers in.
\* Whatever that order and the order of the edges, the same papers are
\* loaded, each once, the look-up table numbers them 0..N-1 in the order of
\* the list, and the matrix holds the same citations between the same
\* identifiers: it is the matrix of the other run with rows and columns
\* permuted as the papers are.
C23_SameUpToPaperOrder ==
    pc = "loaded" =>
        LET canon == CanonicalCorpus
            ids == DOMAIN canon.paper_index
        IN /\ Len(papers) = Len(canon.papers)
           /\ { papers[i] : i \in 1..Len(papers) }
                = { canon.papers[i] : i \in 1..Len(canon.papers) }
           /\ DOMAIN paper_index = ids
           /\ \A i \in 1..Len(papers) : paper_index[papers[i].paper_id] = i - 1
           /\ \A a, b \in ids :
                 citation_matrix[<<paper_index[a], paper_index[b]>>]
                   = CanonicalCitations[<<canon.paper_index[a], canon.paper_index[b]>>]

C23_Witness ==
    /\ pc = "loaded"
    /\ Len(papers) = 2
    /\ papers[1].paper_id = <<"2">>
    /\ papers[1].abstract # papers[2].abstract
    /\ citation_matrix[<<0, 1>>] = 1
    /\ citation_matrix[<<0, 0>>] = 1
    /\ citation_matrix[<<1, 0>>] = 0

\* The identifiers of the Paper subjects of g.
SubjectIds == { StripNamespace(s) : s \in PaperSubjects }

\* C24: no edge is processed while the extraction loop runs; when the first
\* edge is processed the look-up table holds every Paper subject of g and
\* does not change any more; and every edge seen between two loaded papers
\* is in the matrix, wherever its ends stand in the paper list.
C24_LookupCompleteBeforeEdges ==
    /\ pc = "extract" => (n_edges = 0 /\ edges_seen = {} /\ citation_matrix = <<>>)
    /\ MatrixBuilt =>
          /\ DOMAIN paper_index = SubjectIds
          /\ LoadedIds = SubjectIds
          /\ \A e \in edges_seen :
                EdgeIsKnown(e) =>
                   citation_matrix[<<paper_index[CitingId(e)], paper_index[CitedId(e)]>>] = 1

C24_Witness ==
    /\ pc = "cite"
    /\ Len(papers) = 2
    /\ papers[1].paper_id = <<"2">>
    /\ n_edges = 2
    /\ citation_matrix[<<1, 0>>] = 1
    /\ citation_matrix[<<0, 1>>] = 1

\* C28: after every iteration of the extraction loop papers and embeddings
\* have the same length, embeddings[i] is the embedding of the abstract of
\* papers[i], paper_index maps the identifier of papers[i] to i, and
\* paper_index is one-to-one from the loaded identifiers onto 0..N-1.
C28_CorpusAligned ==
    /\ Len(embeddings) = Len(papers)
    /\ \A i \in 1..Len(papers) :
          /\ embeddings[i] = bert_model(papers[i].abstract)
          /\ papers[i].paper_id \in DOMAIN paper_index
          /\ paper_index[papers[i].paper_id] = i - 1
          /\ papers[i].abstract = g_abstracts[IdNumber(papers[i].paper_id[1])]
    /\ DOMAIN paper_index = LoadedIds
    /\ Cardinality(DOMAIN paper_index) = Len(papers)
    /\ { paper_index[k] : k \in DOMAIN paper_index } = 0..(Len(papers) - 1)

C28_Witness ==
    /\ pc = "extract"
    /\ Len(papers) = 2
    /\ papers[1].paper_id = <<"2">>
    /\ embeddings[1] # embeddings[2]
    /\ paper_index[<<"1">>] = 1

\* train_test_split and fit need at least two papers and a citation.
InitRec ==
    /\ pc = "driver"
    /\ error = "none"
    /\ \E n \in 2..MaxCorpus : g_abstracts \in [1..n -> {"t0", "t1", "t2"}]
    /\ LET st == Extracted(g_abstracts, Len(g_abstracts))
       IN /\ papers = st.papers
          /\ paper_index = st.paper_index
          /\ embeddings = st.embeddings
    /\ edges_seen = {<<ArxivUri(1), ArxivUri(2)>>}
    /\ n_edges = 1
    /\ citation_matrix =
         CiteOne(paper_index, [matrix |-> lil_matrix(Len(papers)), error |-> "none"],
                 ArxivUri(1), ArxivUri(2)).matrix
    /\ model \in Classifiers
    /\ query = ""
    /\ recommendations = <<>>
    /\ scores_out = <<>>
    /\ nx_nodes = <<>>
    /\ pagerank_scores = <<>>
    /\ hub_scores = <<>>
    /\ authority_scores = <<>>
    /\ centrality = <<>>
    /\ normalized_scores = <<>>
    /\ final_scores = <<>>
    /\ top_papers_final = <<>>
    /\ NoGraph
    /\ NoTraining
    /\ NoDriver
    /\ embed_calls = NoCalls

NextRec == Recommend

SpecRec == InitRec /\ [][NextRec]_vars

\* The same start for a corpus of 2..MaxPapers + 1 papers, with the log of
\* the calls get_bert_embedding has had from the extraction loop.
InitEmbed ==
    /\ pc = "driver"
    /\ error = "none"
    /\ \E n \in 2..(MaxPapers + 1) : g_abstracts \in [1..n -> {"t0", "t1", "t2"}]
    /\ LET st == Extracted(g_abstracts, Len(g_abstracts))
       IN /\ papers = st.papers
          /\ paper_index = st.paper_index
          /\ embeddings = st.embeddings
          /\ embed_calls = st.embed_calls
    /\ edges_seen = {<<ArxivUri(1), ArxivUri(2)>>}
    /\ n_edges = 1
    /\ citation_matrix =
         CiteOne(paper_index, [matrix |-> lil_matrix(Len(papers)), error |-> "none"],
                 ArxivUri(1), ArxivUri(2)).matrix
    /\ model \in Classifiers
    /\ query = ""
    /\ recommendations = <<>>
    /\ scores_out = <<>>
    /\ nx_nodes = <<>>
    /\ pagerank_scores = <<>>
    /\ hub_scores = <<>>
    /\ authority_scores = <<>>
    /\ centrality = <<>>
    /\ normalized_scores = <<>>
    /\ final_scores = <<>>
    /\ top_papers_final = <<>>
    /\ NoGraph
    /\ NoTraining
    /\ NoDriver

NextEmbed == Recommend

SpecEmbed == InitEmbed /\ [][NextEmbed]_vars

\* The driver loop has handed a paper to recommend.
Answered == pc = "driver" /\ query # ""

\* How many corpus papers have the abstract `text`.
CorpusCount(text) == Cardinality({ i \in 1..Len(papers) : papers[i].abstract = text })

\* C19 as stated: get_bert_embedding is never called a second time on a
\* text it has embedded.
C19_NoTextEmbeddedTwice == \A t \in DOMAIN embed_calls : embed_calls[t] <= 1

\* C19 as amended: the extraction loop calls get_bert_embedding once for
\* each corpus paper, whatever its text, and every recommend call calls it
\* once more, on the abstract of the query, and leaves the embeddings of the
\* corpus as they are.
C19_OneCallPerPaperAndPerQuery ==
    /\ \A t \in Texts : embed_calls[t] = CorpusCount(t)
    /\ Len(embeddings) = Len(papers)
    /\ [][/\ embed_calls' = [embed_calls EXCEPT ![query'] = @ + 1]
          /\ embeddings' = embeddings]_vars

C19_Witness ==
    /\ query # ""
    /\ CorpusCount(query) = 1
    /\ embed_calls[query] = 3
    /\ \E t \in Texts : t # query /\ CorpusCount(t) = 2 /\ embed_calls[t] = 2

\* C25: no call of recommend changes the classifier, the paper list, the
\* look-up table, the corpus embeddings or the citation matrix, and what
\* recommend returns for a query is what it returns for that query over the
\* corpus as it was extracted, whatever queries were answered before.
C25_RecommendOnlyReads ==
    /\ [][/\ model' = model
          /\ papers' = papers
          /\ paper_index' = paper_index
          /\ embeddings' = embeddings
          /\ citation_matrix' = citation_matrix]_vars
    /\ [](Answered =>
            LET corpus == Extracted(g_abstracts, Len(g_abstracts))
            IN /\ model \in Classifiers
               /\ scores_out = ScoresFor(model, corpus.embeddings, query)
               /\ recommendations = recommend(model, corpus.papers, corpus.embeddings, query))

C25_Witness ==
    /\ Answered
    /\ Len(recommendations) = Len(papers)
    /\ embed_calls[query] = CorpusCount(query) + 1
    /\ \E t \in Texts : t # query /\ embed_calls[t] = CorpusCount(t) + 1
    /\ recommendations[1][1] # papers[1].paper_id

-----------------------------------------------------------------------------
(* Properties of recommend (SpecRec).                                      *)

Min(a, b) == IF a < b THEN a ELSE b

\* The place in the corpus (1-based) of a returned (paper_id, abstract) pair.
PositionOf(rec) == CHOOSE i \in 1..Len(papers) : papers[i].paper_id = rec[1]
ReturnedPositions == [k \in 1..Len(recommendations) |-> PositionOf(recommendations[k])]
IsCorpusPair(rec) ==
    \E i \in 1..Len(papers) : rec = <<papers[i].paper_id, papers[i].abstract>>

\* C1: recommend returns exactly min(5, N) (paper_id, abstract) pairs of
\* corpus papers, and their predicted probabilities never increase along
\* the returned sequence.
C1_LengthAndOrder ==
    Answered =>
        /\ Len(recommendations) = Min(TopK, Len(papers))
        /\ \A k \in 1..Len(recommendations) : IsCorpusPair(recommendations[k])
        /\ \A k \in 1..(Len(recommendations) - 1) :
              RatLeq(scores_out[ReturnedPositions[k + 1]], scores_out[ReturnedPositions[k]])

C1_Witness ==
    /\ Answered
    /\ Len(papers) > TopK
    /\ Len(recommendations) = TopK
    /\ RatLess(scores_out[ReturnedPositions[TopK]], scores_out[ReturnedPositions[1]])

\* Paper p stands before paper q in the ranking: a greater probability, or
\* the same probability and an earlier place in the corpus.
RanksBefore(p, q) ==
    \/ RatLess(scores_out[q], scores_out[p])
    \/ RatEq(scores_out[q], scores_out[p]) /\ p < q

\* C2: papers of equal probability keep their corpus order, and what is
\* returned is the first 5 papers of that ranking, in its order.
C2_StableTopK ==
    Answered =>
        LET pos == ReturnedPositions
            returned == { pos[k] : k \in 1..Len(pos) }
        IN /\ Len(pos) = Min(TopK, Len(papers))
           /\ \A k, l \in 1..Len(pos) : k < l => RanksBefore(pos[k], pos[l])
           /\ \A q \in (1..Len(papers)) \ returned :
                 \A k \in 1..Len(pos) : RanksBefore(pos[k], q)

C2_Witness ==
    /\ Answered
    /\ Len(papers) > TopK
    /\ \E k \in 1..(TopK - 1) :
          RatEq(scores_out[ReturnedPositions[k]], scores_out[ReturnedPositions[k + 1]])
    /\ \E q \in 1..Len(papers) :
          /\ \A k \in 1..TopK : ReturnedPositions[k] # q
          /\ RatEq(scores_out[q], scores_out[ReturnedPositions[TopK]])

\* The corpus papers whose abstract is the text of the query.
IdenticalPapers == { i \in 1..Len(papers) : papers[i].abstract = query }

\* C3 as stated: when the abstract of the query is the abstract of a corpus
\* paper, a paper with that abstract is the first recommendation.
C3_IdenticalAbstractFirst ==
    (Answered /\ IdenticalPapers # {}) => recommendations[1][2] = query

\* C3 as amended: with a positive coefficient and a query embedding of
\* non-zero norm, the identical paper has similarity 1 and the greatest
\* probability of the corpus, and the first recommendation is the earliest
\* corpus paper with that probability (the identical paper itself unless an
\* earlier paper ties with it).
C3_IdenticalFirstIfPositive ==
    (Answered /\ model.coef > 0 /\ Norm(get_bert_embedding(query)) # 0) =>
        \A i \in IdenticalPapers :
            /\ cosine_similarity(get_bert_embedding(query), embeddings[i]) = SimScale
            /\ \A j \in 1..Len(papers) : RatLeq(scores_out[j], scores_out[i])
            /\ RatEq(scores_out[ReturnedPositions[1]], scores_out[i])
            /\ \A j \in 1..Len(papers) :
                  RatEq(scores_out[j], scores_out[i]) => ReturnedPositions[1] <= j

C3_Witness ==
    /\ Answered
    /\ model.coef > 0
    /\ IdenticalPapers # {}
    /\ 1 \notin IdenticalPapers
    /\ ReturnedPositions[1] \in IdenticalPapers
    /\ recommendations[1][1] = papers[ReturnedPositions[1]].paper_id

\* The cosine similarity of the query to corpus paper i (1-based).
SimilarityTo(i) == cosine_similarity(get_bert_embedding(query), embeddings[i])

\* Paper p stands before paper q in the order of descending similarity,
\* papers of equal similarity in corpus order.
SimRanksBefore(p, q) ==
    \/ SimilarityTo(q) < SimilarityTo(p)
    \/ SimilarityTo(q) = SimilarityTo(p) /\ p < q

\* C17: with a positive coefficient every probability lies in [0, 1] and
\* grows with the similarity, and what recommend returns is the head of the
\* ranking by descending raw similarity, ties in corpus order.
C17_PositiveCoefRanksBySimilarity ==
    (Answered /\ model.coef > 0) =>
        LET pos == ReturnedPositions
            returned == { pos[k] : k \in 1..Len(pos) }
            all == 1..Len(papers)
        IN /\ \A i \in all : RatLeq(<<0, 1>>, scores_out[i]) /\ RatLeq(scores_out[i], <<1, 1>>)
           /\ \A i, j \in all :
                 /\ SimilarityTo(i) <= SimilarityTo(j) => RatLeq(scores_out[i], scores_out[j])
                 /\ SimilarityTo(i) < SimilarityTo(j) => RatLess(scores_out[i], scores_out[j])
           /\ Len(pos) = Min(TopK, Len(papers))
           /\ \A k, l \in 1..Len(pos) : k < l => SimRanksBefore(pos[k], pos[l])
           /\ \A q \in all \ returned : \A k \in 1..Len(pos) : SimRanksBefore(pos[k], q)

C17_Witness ==
    /\ Answered
    /\ model.coef > 0
    /\ Len(papers) > TopK
    /\ \E k \in 1..(TopK - 1) :
          SimilarityTo(ReturnedPositions[k]) = SimilarityTo(ReturnedPositions[k + 1])
    /\ SimilarityTo(ReturnedPositions[1]) > SimilarityTo(ReturnedPositions[TopK])
    /\ \E q \in 1..Len(papers) :
          /\ \A k \in 1..TopK : ReturnedPositions[k] # q
          /\ q < ReturnedPositions[1]

-----------------------------------------------------------------------------
(* Task3.ipynb.  A dict is the sequence of its <<key, value>> items in     *)
(* dict order.  The raw scores nx.pagerank, nx.hits and                    *)
(* nx.eigenvector_centrality_numpy return are integers (fixed-point        *)
(* values) drawn from small sets.                                          *)

MaxNodes == 3

Values(d) == [i \in 1..Len(d) |-> d[i][2]]
KeySet(d) == { d[i][1] : i \in 1..Len(d) }
\* d[key]
Lookup(d, key) == d[CHOOSE i \in 1..Len(d) : d[i][1] = key][2]

\* The class node ARXIV.Paper, which rdflib_to_networkx_digraph(g) holds as
\* the object of the rdf:type triples.
PaperClass == [lit |-> FALSE, str |-> <<ARXIV, "Paper">>]

\* str(n).startswith("http://arxiv.org/")
StartsWithArxiv(term) == Len(term.str) > 0 /\ term.str[1] = ARXIV

\* The predicates of the triples of g.
CITES == "cites"
RDF_TYPE == "type"
TITLE == "title"

\* A graph as [nodes, edges]: the nodes in insertion order, the edges a set.
EmptyGraph == [nodes |-> <<>>, edges |-> {}]

AddNode(nodes, n) ==
    IF \E i \in 1..Len(nodes) : nodes[i] = n THEN nodes ELSE Append(nodes, n)

\* graph.add_edge(s, o): both ends become nodes when they are none yet.
add_edge(graph, s, o) ==
    [nodes |-> AddNode(AddNode(graph.nodes, s), o),
     edges |-> graph.edges \cup {<<s, o>>}]

\* A variant of the loop body that does not skip literals.
NxStepKeepLiterals(nx_graph, t) ==
    IF t[2] = CITES THEN add_edge(nx_graph, t[1], t[3]) ELSE nx_graph

\* The body of the loop of rdf_to_nx for the triple t = (s, p, o).
NxStep(nx_graph, t) ==
    IF t[3].lit THEN nx_graph
    ELSE IF t[2] = CITES THEN add_edge(nx_graph, t[1], t[3])
    ELSE nx_graph

\* rdf_to_nx(g), g taken as the sequence of its triples in iteration order.
RECURSIVE rdf_to_nx(_)
rdf_to_nx(triples) ==
    IF triples = <<>> THEN EmptyGraph
    ELSE NxStep(rdf_to_nx(SubSeq(triples, 1, Len(triples) - 1)), triples[Len(triples)])

\* nx_graph = rdf_to_nx(g)
RdfToNx ==
    /\ pc = "convert"
    /\ LET nx_graph == rdf_to_nx(g_triples)
       IN /\ nx_nodes' = nx_graph.nodes
          /\ nx_edges' = nx_graph.edges
    /\ pc' = "pagerank"
    /\ UNCHANGED <<driverVars, error, loadVars, recVars, trainVars, embed_calls, g_triples,
                   G_paper_simple, pagerank_scores, hub_scores, authority_scores,
                   centrality, normalized_scores, final_scores, top_papers_final>>

PageRankValues == {1, 2, 3}
HubValues == {0, 1}
CentralityValues == {0, 1}
ClassNodeValues == {0, 2}

\* The dicts over the nodes `nodes` (in this order) with values in `vals`.
DictsOver(nodes, vals) ==
    { [i \in 1..Len(nodes) |-> <<nodes[i], f[i]>>] : f \in [1..Len(nodes) -> vals] }

\* pagerank_scores = nx.pagerank(nx_graph), the raw values drawn from `vals`.
PageRankWith(vals) ==
    /\ pc = "pagerank"
    /\ pagerank_scores' \in DictsOver(nx_nodes, vals)
    /\ pc' = "hits"
    /\ UNCHANGED <<driverVars, graphVars, trainVars, embed_calls, error, loadVars, recVars, nx_nodes,
                   hub_scores, authority_scores, centrality, normalized_scores,
                   final_scores, top_papers_final>>

PageRank == PageRankWith(PageRankValues)

\* The authority vectors drawn for a hub vector: the hub values exchanged,
\* or all zero.
AuthoritiesFor(hubs) ==
    { [i \in 1..Len(hubs) |-> <<hubs[i][1], 1 - hubs[i][2]>>],
      [i \in 1..Len(hubs) |-> <<hubs[i][1], 0>>] }

\* hub_scores, authority_scores = nx.hits(nx_graph), the raw hub values drawn
\* from `vals`; or the iteration does not converge and nx.hits raises.
HitsWith(vals) ==
    /\ pc = "hits"
    /\ \/ /\ hub_scores' \in DictsOver(nx_nodes, vals)
          /\ authority_scores' \in AuthoritiesFor(hub_scores')
          /\ pc' = "eigenvector"
          /\ error' = error
       \/ /\ nx_nodes # <<>>
          /\ error' = "PowerIterationFailedConvergence"
          /\ pc' = "failed"
          /\ UNCHANGED <<hub_scores, authority_scores>>
    /\ UNCHANGED <<driverVars, graphVars, trainVars, embed_calls, loadVars, recVars, nx_nodes,
                   pagerank_scores, centrality, normalized_scores, final_scores,
                   top_papers_final>>

Hits == HitsWith(HubValues)

\* rdflib_to_networkx_digraph(g): every triple is an edge from its subject
\* to its object, literals included.
RECURSIVE rdflib_to_networkx_digraph(_)
rdflib_to_networkx_digraph(triples) ==
    IF triples = <<>> THEN EmptyGraph
    ELSE LET t == triples[Len(triples)]
         IN add_edge(rdflib_to_networkx_digraph(SubSeq(triples, 1, Len(triples) - 1)),
                     t[1], t[3])

\* paper_nodes = [n for n in G.nodes() if str(n).startswith("http://arxiv.org/")]
PaperNodes(G) == SelectSeq(G.nodes, StartsWithArxiv)

\* G.subgraph(paper_nodes)
Subgraph(G, nodes) ==
    LET keep == { nodes[i] : i \in 1..Len(nodes) }
    IN [nodes |-> SelectSeq(G.nodes, LAMBDA n : n \in keep),
        edges |-> { e \in G.edges : e[1] \in keep /\ e[2] \in keep }]

\* nx.Graph(G_paper_subgraph): the edges lose their direction.
SimpleGraph(G) == [nodes |-> G.nodes, edges |-> { {e[1], e[2]} : e \in G.edges }]

\* The cell of eigenvector centrality: G, paper_nodes, the subgraph, the
\* simple graph, and centrality = nx.eigenvector_centrality_numpy(...) with
\* raw values drawn from `vals` (`classVals` for the class node); or the
\* eigensolver raises.
EigenvectorCentralityWith(vals, classVals) ==
    /\ pc = "eigenvector"
    /\ LET G == rdflib_to_networkx_digraph(g_triples)
           paper_nodes == PaperNodes(G)
           simple == SimpleGraph(Subgraph(G, paper_nodes))
       IN /\ G_paper_simple' = simple
          /\ \/ /\ paper_nodes # <<>>
                /\ \E f \in [1..Len(paper_nodes) -> vals \cup classVals] :
                     /\ \A i \in 1..Len(paper_nodes) :
                           f[i] \in (IF paper_nodes[i] = PaperClass THEN classVals
                                     ELSE vals)
                     /\ centrality' = [i \in 1..Len(paper_nodes) |-> <<paper_nodes[i], f[i]>>]
                /\ pc' = "fusion"
                /\ error' = error
             \/ /\ error' = IF paper_nodes = <<>> THEN "NetworkXPointlessConcept"
                            ELSE "ArpackNoConvergence"
                /\ pc' = "failed"
                /\ centrality' = centrality
    /\ UNCHANGED <<driverVars, g_triples, nx_edges, trainVars, embed_calls, loadVars, recVars,
                   nx_nodes, pagerank_scores, hub_scores, authority_scores,
                   normalized_scores, final_scores, top_papers_final>>

EigenvectorCentrality == EigenvectorCentralityWith(CentralityValues, ClassNodeValues)

-----------------------------------------------------------------------------
(* The normalisation and fusion cell.                                      *)

\* A variant that leaves the dict in the order it has.
SortedByValueKeepOrder(d) == d

\* {k: v for k, v in sorted(d.items(), key=lambda item: item[1])}
SortedByValue(d) ==
    LET sorted == SortedByKey([i \in 1..Len(d) |-> <<d[i], <<d[i][2], 1>>>>])
    IN [i \in 1..Len(sorted) |-> sorted[i][1]]

SeqMin(s) == CHOOSE x \in { s[i] : i \in 1..Len(s) } : \A i \in 1..Len(s) : x <= s[i]
SeqMax(s) == CHOOSE x \in { s[i] : i \in 1..Len(s) } : \A i \in 1..Len(s) : x >= s[i]

\* MinMaxScaler().fit_transform(data): (x - min) / (max - min) per value; a
\* range of zero is replaced by 1.
fit_transform(data) ==
    LET lo == SeqMin(data)
        range == SeqMax(data) - lo
        scale == IF range = 0 THEN 1 ELSE range
    IN [i \in 1..Len(data) |-> <<data[i] - lo, scale>>]

\* A variant that pairs the normalised values with the keys in the order the
\* dict had before it was sorted by value (here: the reverse order).
NormalizeReversedKeys(score) ==
    LET normalized == fit_transform(Values(score))
    IN [i \in 1..Len(score) |-> <<score[Len(score) + 1 - i][1], normalized[i]>>]

\* {k: v for k, v in zip(score.keys(), normalized)}
Normalize(score) ==
    LET normalized == fit_transform(Values(score))
    IN [i \in 1..Len(score) |-> <<score[i][1], normalized[i]>>]

RatAdd(a, b) == <<a[1] * b[2] + b[1] * a[2], a[2] * b[2]>>
RatMul(a, b) == <<a[1] * b[1], a[2] * b[2]>>

weights == << <<1, 3>>, <<1, 3>>, <<1, 3>> >>

\* The three dicts that are normalised and fused, with authority in the
\* place of hub.
ScoresListWithAuthority(pr, hub, auth, cen) == <<pr, auth, cen>>

\* scores = [pagerank_scores, hub_scores, centrality]
ScoresList(pr, hub, auth, cen) == <<pr, hub, cen>>

\* sum(normalized_scores[i][paper_id] * weights[i] for i in range(3))
FusedScore(norm, paper_id) ==
    RatAdd(RatAdd(RatAdd(<<0, 1>>, RatMul(Lookup(norm[1], paper_id), weights[1])),
                  RatMul(Lookup(norm[2], paper_id), weights[2])),
           RatMul(Lookup(norm[3], paper_id), weights[3]))

\* A variant of the final sort that is ascending.
SortedByFinalAscending(final) ==
    LET sorted == SortedByKey([i \in 1..Len(final) |-> <<final[i], final[i][2]>>])
    IN [i \in 1..Len(sorted) |-> sorted[i][1]]

\* sorted(final_scores.items(), key=lambda x: x[1], reverse=True): descending,
\* items of equal score in their order in final_scores.
SortedByFinal(final) ==
    LET sorted == SortedByKey([i \in 1..Len(final) |-> <<final[i], RatNeg(final[i][2])>>])
    IN [i \in 1..Len(sorted) |-> sorted[i][1]]

\* The place in dict d of the first key that one of the dicts of `norm` does
\* not hold.
FirstAbsent(d, norm) ==
    CHOOSE k \in 1..Len(d) :
        /\ \E i \in 1..3 : d[k][1] \notin KeySet(norm[i])
        /\ \A j \in 1..(k - 1) : \A i \in 1..3 : d[j][1] \in KeySet(norm[i])

\* The cell as a whole.  fit_transform of a dict without values raises
\* ValueError; the lookup normalized_scores[i][paper_id] of a key the dict
\* does not hold raises KeyError.
NormalizeAndFuse ==
    /\ pc = "fusion"
    /\ LET pr  == SortedByValue(pagerank_scores)
           hub == SortedByValue(hub_scores)
           cen == SortedByValue(centrality)
           scores == ScoresList(pr, hub, authority_scores, cen)
           norm == [i \in 1..3 |-> Normalize(scores[i])]
       IN /\ pagerank_scores' = pr
          /\ hub_scores' = hub
          /\ centrality' = cen
          /\ CASE \E i \in 1..3 : scores[i] = <<>> ->
                  /\ normalized_scores' = <<>>
                  /\ final_scores' = final_scores
                  /\ top_papers_final' = top_papers_final
                  /\ error' = "ValueError"
                  /\ pc' = "failed"
               [] /\ \A i \in 1..3 : scores[i] # <<>>
                  /\ \E i \in 1..3 : ~(KeySet(pr) \subseteq KeySet(scores[i])) ->
                  /\ normalized_scores' = norm
                  /\ final_scores' =
                       [k \in 1..(FirstAbsent(pr, norm) - 1) |->
                           <<pr[k][1], FusedScore(norm, pr[k][1])>>]
                  /\ top_papers_final' = top_papers_final
                  /\ error' = "KeyError"
                  /\ pc' = "failed"
               [] OTHER ->
                  /\ normalized_scores' = norm
                  /\ final_scores' = [k \in 1..Len(pr) |-> <<pr[k][1], FusedScore(norm, pr[k][1])>>]
                  /\ top_papers_final' = SortedByFinal(final_scores')
                  /\ error' = error
                  /\ pc' = "ranked"
    /\ UNCHANGED <<driverVars, graphVars, trainVars, embed_calls, loadVars, recVars, nx_nodes,
                   authority_scores>>

\* The graphs g of the ranking runs: papers ARXIV[1..n] citing in a chain,
\* (a single paper citing itself), the cites triples first; with or without
\* the rdf:type triples of the papers.
ChainTriples(n) ==
    IF n = 1 THEN << <<ArxivUri(1), CITES, ArxivUri(1)>> >>
    ELSE [k \in 1..(n - 1) |-> <<ArxivUri(k), CITES, ArxivUri(k + 1)>>]
TypeTriples(n) == [k \in 1..n |-> <<ArxivUri(k), RDF_TYPE, PaperClass>>]

\* Task3.ipynb before rdf_to_nx(g): a graph of 1..MaxNodes papers.
InitRank ==
    /\ pc = "convert"
    /\ error = "none"
    /\ \E n \in 1..MaxNodes :
         g_triples \in {ChainTriples(n), ChainTriples(n) \o TypeTriples(n)}
    /\ nx_nodes = <<>>
    /\ nx_edges = {}
    /\ G_paper_simple = EmptyGraph
    /\ g_abstracts = <<>>
    /\ papers = <<>>
    /\ paper_index = <<>>
    /\ embeddings = <<>>
    /\ citation_matrix = <<>>
    /\ edges_seen = {}
    /\ n_edges = 0
    /\ model = NoRec
    /\ query = ""
    /\ recommendations = <<>>
    /\ scores_out = <<>>
    /\ pagerank_scores = <<>>
    /\ hub_scores = <<>>
    /\ authority_scores = <<>>
    /\ centrality = <<>>
    /\ normalized_scores = <<>>
    /\ final_scores = <<>>
    /\ top_papers_final = <<>>
    /\ NoTraining
    /\ NoDriver
    /\ embed_calls = NoCalls

NextRank == RdfToNx \/ PageRank \/ Hits \/ EigenvectorCentrality \/ NormalizeAndFuse

SpecRank == InitRank /\ [][NextRank]_vars

-----------------------------------------------------------------------------
(* Properties of the ranking (SpecRank).                                   *)

Ranked == pc = "ranked"

\* (raw(p) - min) / (max - min) over the values of dict d; 0 when all the
\* values are equal.
MinMaxOf(d, p) ==
    LET vals == { d[i][2] : i \in 1..Len(d) }
        lo == CHOOSE x \in vals : \A v \in vals : x <= v
        hi == CHOOSE x \in vals : \A v \in vals : x >= v
    IN IF hi = lo THEN <<0, 1>> ELSE <<Lookup(d, p) - lo, hi - lo>>

\* The mean of three rationals.
Mean3(a, b, c) ==
    <<a[1] * b[2] * c[2] + b[1] * a[2] * c[2] + c[1] * a[2] * b[2], 3 * a[2] * b[2] * c[2]>>

\* C8: the final score of every ranked paper is the mean of its min-max
\* normalised PageRank, hub and eigenvector-centrality scores; the authority
\* scores have no part in it.
C8_FinalIsMeanOfThree ==
    Ranked =>
        /\ Len(top_papers_final) = Len(nx_nodes)
        /\ \A k \in 1..Len(top_papers_final) :
              LET p == top_papers_final[k][1]
              IN RatEq(top_papers_final[k][2],
                       Mean3(MinMaxOf(pagerank_scores, p), MinMaxOf(hub_scores, p),
                             MinMaxOf(centrality, p)))

C8_Witness ==
    /\ Ranked
    /\ Len(top_papers_final) = 3
    /\ \E i \in 1..Len(hub_scores) :
          Lookup(authority_scores, hub_scores[i][1]) # hub_scores[i][2]
    /\ \E k \in 1..3 : /\ RatLess(<<0, 1>>, top_papers_final[k][2])
                       /\ RatLess(top_papers_final[k][2], <<1, 1>>)
    /\ PaperClass \in KeySet(centrality)

\* C9: every final score lies in [0, 1], and the first paper of the ranking
\* has the greatest final score.
C9_UnitRangeAndTopIsMax ==
    Ranked =>
        /\ \A k \in 1..Len(final_scores) :
              /\ RatLeq(<<0, 1>>, final_scores[k][2])
              /\ RatLeq(final_scores[k][2], <<1, 1>>)
        /\ \A k \in 1..Len(final_scores) :
              RatLeq(final_scores[k][2], top_papers_final[1][2])

C9_Witness ==
    /\ Ranked
    /\ Len(top_papers_final) = 3
    /\ RatEq(top_papers_final[1][2], <<1, 1>>)
    /\ RatEq(top_papers_final[3][2], <<0, 1>>)
    /\ top_papers_final[1][1] # nx_nodes[1]

\* The place of a node in the insertion order of nx_graph.
InsertionIndex(node) == CHOOSE i \in 1..Len(nx_nodes) : nx_nodes[i] = node

\* C10 as stated: the ranking descends by final score, and of two papers
\* with equal final scores the one inserted earlier comes first.
C10_TiesByInsertionOrder ==
    Ranked =>
        \A a, b \in 1..Len(top_papers_final) :
            a < b =>
              \/ RatLess(top_papers_final[b][2], top_papers_final[a][2])
              \/ /\ RatEq(top_papers_final[b][2], top_papers_final[a][2])
                 /\ InsertionIndex(top_papers_final[a][1]) < InsertionIndex(top_papers_final[b][1])

\* C10 as amended: the ranking descends by final score; papers with equal
\* final scores stand in ascending order of their raw PageRank score, and
\* those with equal PageRank scores too in insertion order.
C10_TiesByAscendingPageRank ==
    Ranked =>
        \A a, b \in 1..Len(top_papers_final) :
            a < b =>
              LET pa == top_papers_final[a][1]
                  pb == top_papers_final[b][1]
              IN \/ RatLess(top_papers_final[b][2], top_papers_final[a][2])
                 \/ /\ RatEq(top_papers_final[b][2], top_papers_final[a][2])
                    /\ \/ Lookup(pagerank_scores, pa) < Lookup(pagerank_scores, pb)
                       \/ /\ Lookup(pagerank_scores, pa) = Lookup(pagerank_scores, pb)
                          /\ InsertionIndex(pa) < InsertionIndex(pb)

C10_Witness ==
    /\ Ranked
    /\ \E a, b \in 1..Len(top_papers_final) :
          /\ a < b
          /\ RatEq(top_papers_final[b][2], top_papers_final[a][2])
          /\ InsertionIndex(top_papers_final[b][1]) < InsertionIndex(top_papers_final[a][1])
          /\ Lookup(pagerank_scores, top_papers_final[a][1])
               < Lookup(pagerank_scores, top_papers_final[b][1])

\* How many items of dict d have the key p.
CountKey(d, p) == Cardinality({ i \in 1..Len(d) : d[i][1] = p })

\* C29: for each of the three metrics, the normalised dict has the keys of
\* the raw dict, each once, and the value stored under p is
\* (raw(p) - min) / (max - min) over the values of that metric alone, 0 when
\* they are all equal.
C29_NormalizedPerMetric ==
    normalized_scores # <<>> =>
        /\ Len(normalized_scores) = 3
        /\ \A p \in KeySet(pagerank_scores) :
              /\ CountKey(normalized_scores[1], p) = 1
              /\ RatEq(Lookup(normalized_scores[1], p), MinMaxOf(pagerank_scores, p))
        /\ \A p \in KeySet(hub_scores) :
              /\ CountKey(normalized_scores[2], p) = 1
              /\ RatEq(Lookup(normalized_scores[2], p), MinMaxOf(hub_scores, p))
        /\ \A p \in KeySet(centrality) :
              /\ CountKey(normalized_scores[3], p) = 1
              /\ RatEq(Lookup(normalized_scores[3], p), MinMaxOf(centrality, p))
        /\ Len(normalized_scores[1]) = Len(pagerank_scores)
        /\ Len(normalized_scores[2]) = Len(hub_scores)
        /\ Len(normalized_scores[3]) = Len(centrality)

C29_Witness ==
    /\ Ranked
    /\ Len(nx_nodes) = 3
    /\ pagerank_scores[1][1] # nx_nodes[1]
    /\ \E k \in 1..3 : RatEq(normalized_scores[1][k][2], <<1, 2>>)
    /\ SeqMax(Values(hub_scores)) - SeqMin(Values(hub_scores)) = 1
    /\ SeqMax(Values(centrality)) = SeqMin(Values(centrality))
    /\ Len(centrality) > Len(pagerank_scores)

-----------------------------------------------------------------------------
(* Task3.ipynb over any small graph g (SpecGraph): papers with and without *)
(* an rdf:type triple, cites triples to a URI of the namespace, to a URI   *)
(* outside it and to a literal, and a title triple.  The raw scores are    *)
(* drawn from smaller sets than in SpecRank.                               *)

MaxTriples == 2

\* A URI outside the namespace of ARXIV.
ForeignUri == [lit |-> FALSE, str |-> <<"http://doi.org/", "x">>]

GraphSubjects == {ArxivUri(1), ArxivUri(2)}
CitedObjects == {ArxivUri(1), ArxivUri(2), ArxivUri(3), ForeignUri, LiteralTerm(1)}

GraphTriples ==
    { <<s, RDF_TYPE, PaperClass>> : s \in GraphSubjects }
    \cup { <<s, CITES, o>> : s \in GraphSubjects, o \in CitedObjects }
    \cup { <<ArxivUri(1), TITLE, LiteralTerm(1)>> }

\* The sequences of at most n triples, none twice.
TripleSeqs(n) ==
    UNION { { q \in [1..k -> GraphTriples] : \A i, j \in 1..k : q[i] = q[j] => i = j }
            : k \in 0..n }

GraphPageRankValues == {1, 2}
GraphHubValues == {1}
GraphCentralityValues == {1}
GraphClassNodeValues == {2}

PageRankOfGraph == PageRankWith(GraphPageRankValues)
HitsOfGraph == HitsWith(GraphHubValues)
EigenvectorCentralityOfGraph ==
    EigenvectorCentralityWith(GraphCentralityValues, GraphClassNodeValues)

InitGraph ==
    /\ pc = "convert"
    /\ error = "none"
    /\ g_triples \in TripleSeqs(MaxTriples)
    /\ nx_nodes = <<>>
    /\ nx_edges = {}
    /\ G_paper_simple = EmptyGraph
    /\ g_abstracts = <<>>
    /\ papers = <<>>
    /\ paper_index = <<>>
    /\ embeddings = <<>>
    /\ citation_matrix = <<>>
    /\ edges_seen = {}
    /\ n_edges = 0
    /\ model = NoRec
    /\ query = ""
    /\ recommendations = <<>>
    /\ scores_out = <<>>
    /\ pagerank_scores = <<>>
    /\ hub_scores = <<>>
    /\ authority_scores = <<>>
    /\ centrality = <<>>
    /\ normalized_scores = <<>>
    /\ final_scores = <<>>
    /\ top_papers_final = <<>>
    /\ NoTraining
    /\ NoDriver
    /\ embed_calls = NoCalls

NextGraph ==
    RdfToNx \/ PageRankOfGraph \/ HitsOfGraph \/ EigenvectorCentralityOfGraph
    \/ NormalizeAndFuse

SpecGraph == InitGraph /\ [][NextGraph]_vars

-----------------------------------------------------------------------------
(* Properties of the ranking over any graph (SpecGraph).                   *)

TripleSet == { g_triples[i] : i \in 1..Len(g_triples) }

\* The papers of g: the subjects of type ARXIV.Paper.
TypedPapers == { t[1] : t \in { u \in TripleSet : u[2] = RDF_TYPE /\ u[3] = PaperClass } }

CitesTriples == { t \in TripleSet : t[2] = CITES }

NxNodeSet == { nx_nodes[i] : i \in 1..Len(nx_nodes) }
G_paper_simpleNodeSet == { G_paper_simple.nodes[i] : i \in 1..Len(G_paper_simple.nodes) }

\* The fusion loop has run, to its end or to an exception.
FusionRan == pc = "ranked" \/ error = "KeyError"

\* The keys of pagerank_scores that hub_scores or centrality do not hold.
AbsentPapers ==
    { p \in KeySet(pagerank_scores) : p \notin KeySet(hub_scores) \/ p \notin KeySet(centrality) }

\* The normalised value of p in dict d, 0 for a p the dict does not hold.
ScoreOrZero(d, p) == IF p \in KeySet(d) THEN MinMaxOf(d, p) ELSE <<0, 1>>

\* C11: when a paper of the PageRank vector is absent from another metric
\* vector, the fusion does not fail: every paper gets a final score, the
\* mean of its three normalised scores with 0 for the metric it is absent
\* from.
C11_AbsentMetricCountsZero ==
    (FusionRan /\ AbsentPapers # {}) =>
        /\ pc = "ranked"
        /\ \A p \in KeySet(pagerank_scores) :
              /\ p \in KeySet(final_scores)
              /\ RatEq(Lookup(final_scores, p),
                       Mean3(ScoreOrZero(pagerank_scores, p), ScoreOrZero(hub_scores, p),
                             ScoreOrZero(centrality, p)))

\* A centrality computation has raised for lack of convergence.
MetricFailed == error \in {"PowerIterationFailedConvergence", "ArpackNoConvergence"}

\* C12: a centrality computation that fails to converge does not stop the
\* notebook; the ranking is still produced from the metrics that remain.
C12_RankingSurvivesFailure == MetricFailed => pc # "failed"

\* The cell of eigenvector centrality has built its graph.
EigenvectorGraphBuilt == G_paper_simple # EmptyGraph

\* A paper node: a subject of type ARXIV.Paper, or the subject or the
\* non-literal object of a cites triple.
IsPaperNode(n) ==
    \/ n \in TypedPapers
    \/ \E t \in CitesTriples : n = t[1] \/ (~t[3].lit /\ n = t[3])

\* C13: the graph handed to eigenvector centrality holds paper nodes only
\* and citation relations only.
C13_OnlyPapersAndCitations ==
    EigenvectorGraphBuilt =>
        /\ \A n \in G_paper_simpleNodeSet : IsPaperNode(n)
        /\ \A e \in G_paper_simple.edges :
              \E t \in CitesTriples : e = {t[1], t[3]}

\* C14: once the ranking is made, every paper of g has exactly one PageRank
\* score, one hub score, one eigenvector score and one final score, and is
\* exactly once in the ranking.
C14_EveryPaperScoredOnce ==
    pc = "ranked" =>
        \A p \in TypedPapers :
            /\ CountKey(pagerank_scores, p) = 1
            /\ CountKey(hub_scores, p) = 1
            /\ CountKey(centrality, p) = 1
            /\ CountKey(final_scores, p) = 1
            /\ CountKey(top_papers_final, p) = 1

\* C15 as stated: every node of nx_graph is a paper of g and every edge
\* joins two papers of g.
C15_EveryNodeIsLoadedPaper ==
    pc # "convert" =>
        /\ NxNodeSet \subseteq TypedPapers
        /\ \A e \in nx_edges : e[1] \in TypedPapers /\ e[2] \in TypedPapers

\* C15 as amended: the edges of nx_graph are the cites triples whose object
\* is no literal, whether or not their ends are papers of g, and the nodes
\* are the ends of these edges.
C15_NodesAreCitesEndpoints ==
    pc # "convert" =>
        /\ nx_edges = { <<t[1], t[3]>> : t \in { u \in CitesTriples : ~u[3].lit } }
        /\ NxNodeSet = UNION { {e[1], e[2]} : e \in nx_edges }
        /\ \A i, j \in 1..Len(nx_nodes) : nx_nodes[i] = nx_nodes[j] => i = j

C15_Witness ==
    /\ pc = "pagerank"
    /\ \E t \in CitesTriples : t[1] \in TypedPapers /\ ~t[3].lit /\ t[3] \notin TypedPapers
                               /\ t[3] \in NxNodeSet /\ <<t[1], t[3]>> \in nx_edges

-----------------------------------------------------------------------------
(* The training cells of the recommender notebook (SpecTrain): the pairs,  *)
(* the similarity matrix, the feature and label columns, the split, the    *)
(* fit and the ROC-AUC.  Rows of the columns are numbered from 0, as in    *)
(* the code; row k of a column is element k + 1 of its sequence.           *)

MaxTrainPapers == 3

PaperRange(n) == 0..(n - 1)

\* pairs[i*n + j] = (i, j) for i, j in range(n)
PairsOf(n) ==
    [k \in 1..(n * n) |->
        CHOOSE ij \in PaperRange(n) \X PaperRange(n) : ij[1] * n + ij[2] = k - 1]

\* A variant that fills the matrix for i <= j only.
SimilarityMatrixUpper(embs) ==
    [ij \in PaperRange(Len(embs)) \X PaperRange(Len(embs)) |->
        IF ij[1] <= ij[2] THEN cosine_similarity(embs[ij[1] + 1], embs[ij[2] + 1]) ELSE 0]

\* cosine_similarity(np.array(embeddings)): entry (i, j) is the cosine
\* similarity of row i and row j.
SimilarityMatrix(embs) ==
    [ij \in PaperRange(Len(embs)) \X PaperRange(Len(embs)) |->
        cosine_similarity(embs[ij[1] + 1], embs[ij[2] + 1])]

\* A variant that reads the matrix column by column.
flattenColumnMajor(matrix, n) ==
    [k \in 1..(n * n) |-> matrix[<<(k - 1) % n, (k - 1) \div n>>]]

\* matrix.toarray().flatten(): the rows of the matrix one after another.
flatten(matrix, n) ==
    [k \in 1..(n * n) |-> matrix[<<(k - 1) \div n, (k - 1) % n>>]]

\* The cell that prepares the training data.
BuildPairs ==
    /\ pc = "pairs"
    /\ LET n == Len(papers)
       IN /\ pairs' = PairsOf(n)
          /\ similarities' = SimilarityMatrix(embeddings)
          /\ pair_similarities' =
               [k \in 1..(n * n) |-> similarities'[<<pairs'[k][1], pairs'[k][2]>>]]
          /\ y' = flatten(citation_matrix, n)
    /\ pc' = "train"
    /\ UNCHANGED <<driverVars, error, loadVars, recVars, rankVars, graphVars, split, fit_log,
                   embed_calls>>

\* np.random.RandomState(42).permutation(n_samples) for the numbers of
\* samples n*n of 1 to 4 papers.
permutation(n_samples) ==
    CASE n_samples = 1  -> <<0>>
      [] n_samples = 4  -> <<1, 3, 0, 2>>
      [] n_samples = 9  -> <<7, 1, 5, 0, 8, 2, 4, 3, 6>>
      [] n_samples = 16 -> <<0, 1, 5, 14, 13, 11, 8, 9, 2, 15, 4, 7, 10, 12, 3, 6>>

\* ceil(0.2 * n_samples)
TestCount(n_samples) == (n_samples + 4) \div 5

\* A variant of the split that keeps every row in the training part.
train_test_splitKeepAll(n_samples) ==
    LET perm == permutation(n_samples)
    IN [test |-> SubSeq(perm, 1, TestCount(n_samples)), train |-> perm]

\* train_test_split(..., test_size=0.2, random_state=42), as the rows of
\* each part: the first ceil(0.2 n) rows of the permutation are the test
\* part, the others the training part.
train_test_split(n_samples) ==
    LET perm == permutation(n_samples)
        n_test == TestCount(n_samples)
    IN [test |-> SubSeq(perm, 1, n_test), train |-> SubSeq(perm, n_test + 1, n_samples)]

\* The rows `rows` of a column.
Rows(column, rows) == [k \in 1..Len(rows) |-> column[rows[k] + 1]]

X_train == Rows(pair_similarities, split.train)
y_train == Rows(y, split.train)
X_test == Rows(pair_similarities, split.test)
y_test == Rows(y, split.test)

OneClass(labels) == \A k, l \in 1..Len(labels) : labels[k] = labels[l]

\* The cell that splits, fits and evaluates.  train_test_split raises
\* ValueError when the training part would be empty, fit when y_train holds
\* one class only, roc_auc_score when y_test holds one class only.  The
\* name `model` is bound to the new classifier before fit is called.
TrainAndEvaluate ==
    /\ pc = "train"
    /\ LET n_samples == Len(y)
           parts == train_test_split(n_samples)
           labels_train == Rows(y, parts.train)
           labels_test == Rows(y, parts.test)
       IN IF Len(parts.train) = 0
          THEN /\ error' = "ValueError"
               /\ pc' = "failed"
               /\ UNCHANGED <<split, model, fit_log>>
          ELSE /\ split' = parts
               /\ IF OneClass(labels_train)
                  THEN /\ error' = "ValueError"
                       /\ pc' = "failed"
                       /\ model' = UnfittedClassifier
                       /\ fit_log' = fit_log
                  ELSE /\ model' \in Classifiers
                       /\ fit_log' = Append(fit_log,
                                            [X |-> Rows(pair_similarities, parts.train),
                                             y |-> labels_train])
                       /\ IF OneClass(labels_test)
                          THEN error' = "ValueError" /\ pc' = "failed"
                          ELSE error' = error /\ pc' = "driver"
    /\ UNCHANGED <<driverVars, loadVars, query, recommendations, scores_out, rankVars, graphVars,
                   similarities, pairs, pair_similarities, y, embed_calls>>

\* The sets of at most n cites pairs between Paper subjects.
KnownEdgeSets(n) ==
    { E \in SUBSET (PaperSubjects \X PaperSubjects) : Cardinality(E) <= n }

\* The notebook after the loading cells: 1..MaxTrainPapers papers, a
\* citation matrix of at most MaxEdges citations.
InitTrain ==
    /\ pc = "pairs"
    /\ error = "none"
    /\ \E n \in 1..MaxTrainPapers : g_abstracts \in [1..n -> {"t0", "t1", "t2"}]
    /\ LET st == Extracted(g_abstracts, Len(g_abstracts))
       IN /\ papers = st.papers
          /\ paper_index = st.paper_index
          /\ embeddings = st.embeddings
    /\ edges_seen \in KnownEdgeSets(MaxEdges)
    /\ n_edges = Cardinality(edges_seen)
    /\ citation_matrix =
         MatrixOfSet(edges_seen, [matrix |-> lil_matrix(Len(papers)),
                                  error |-> "none"]).matrix
    /\ model = BertEncoder
    /\ query = ""
    /\ recommendations = <<>>
    /\ scores_out = <<>>
    /\ nx_nodes = <<>>
    /\ pagerank_scores = <<>>
    /\ hub_scores = <<>>
    /\ authority_scores = <<>>
    /\ centrality = <<>>
    /\ normalized_scores = <<>>
    /\ final_scores = <<>>
    /\ top_papers_final = <<>>
    /\ NoGraph
    /\ NoTraining
    /\ NoDriver
    /\ embed_calls = NoCalls

NextTrain == BuildPairs \/ TrainAndEvaluate

SpecTrain == InitTrain /\ [][NextTrain]_vars

-----------------------------------------------------------------------------
(* Properties of the training cells (SpecTrain).                           *)

PairsBuilt == pc # "pairs"
SampleCount == Len(papers) * Len(papers)
SeqSet(q) == { q[k] : k \in 1..Len(q) }

\* C16 as stated: the classifier is fitted exactly once, on all N*N
\* examples.
C16_FittedOnFullSet ==
    fit_log # <<>> =>
        /\ Len(fit_log) = 1
        /\ fit_log[1] = [X |-> pair_similarities, y |-> y]

\* C16 as amended: the classifier is fitted exactly once, on the training
\* part of the split only: the N*N - ceil(0.2 N*N) rows the split did not
\* put in the test part; no row of the test part is fitted on.
C16_FittedOnceOnTrainingPart ==
    /\ pc \in {"pairs", "train"} => fit_log = <<>>
    /\ pc = "driver" => Len(fit_log) = 1
    /\ fit_log # <<>> =>
          /\ Len(fit_log) = 1
          /\ fit_log[1] = [X |-> X_train, y |-> y_train]
          /\ Len(split.train) = SampleCount - (SampleCount + 4) \div 5
          /\ Len(split.test) = (SampleCount + 4) \div 5
          /\ SeqSet(split.train) \cap SeqSet(split.test) = {}
          /\ SeqSet(split.train) \cup SeqSet(split.test) = 0..(SampleCount - 1)
          /\ model \in Classifiers

C16_Witness ==
    /\ pc = "driver"
    /\ Len(fit_log) = 1
    /\ Len(fit_log[1].X) = 7
    /\ Len(pair_similarities) = 9
    /\ \E k \in 1..Len(y_test) : y_test[k] = 1

\* C18: the training set has exactly one example for each ordered pair
\* (i, j) of corpus papers, i = j included, N*N in all, and row k of the
\* feature column and row k of the label column both belong to the pair
\* (k div N, k mod N).
C18_RowsAlignWithPairs ==
    PairsBuilt =>
        LET n == Len(papers)
        IN /\ Len(pairs) = n * n
           /\ Len(pair_similarities) = n * n
           /\ Len(y) = n * n
           /\ \A i, j \in PaperRange(n) :
                 Cardinality({ k \in 1..Len(pairs) : pairs[k] = <<i, j>> }) = 1
           /\ \A k \in 0..(n * n - 1) :
                 LET i == k \div n
                     j == k % n
                 IN /\ pairs[k + 1] = <<i, j>>
                    /\ pair_similarities[k + 1] =
                         cosine_similarity(embeddings[i + 1], embeddings[j + 1])
                    /\ y[k + 1] = citation_matrix[<<i, j>>]

C18_Witness ==
    /\ pc = "train"
    /\ Len(papers) = 3
    /\ citation_matrix[<<0, 2>>] = 1
    /\ citation_matrix[<<2, 0>>] = 0
    /\ y[3] = 1
    /\ pair_similarities[2] \notin {0, SimScale}

\* C20: the similarity matrix is symmetric.
C20_SimilaritiesSymmetric ==
    PairsBuilt =>
        \A i, j \in PaperRange(Len(papers)) :
            similarities[<<i, j>>] = similarities[<<j, i>>]

C20_Witness ==
    /\ PairsBuilt
    /\ \E i, j \in PaperRange(Len(papers)) :
          i < j /\ similarities[<<i, j>>] \notin {0, SimScale}

-----------------------------------------------------------------------------
(* The notebook from the training cells to the driver loop (SpecNotebook): *)
(* it starts after the loading cells and goes on into the driver loop      *)
(* where the training cell has succeeded.                                  *)

\* The notebook after the loading cells, as in InitTrain, the abstracts
\* being a text of norm zero or one text of norm non-zero.
InitNotebook ==
    /\ pc = "pairs"
    /\ error = "none"
    /\ \E n \in 1..MaxTrainPapers : g_abstracts \in [1..n -> {"t0", "t1"}]
    /\ LET st == Extracted(g_abstracts, Len(g_abstracts))
       IN /\ papers = st.papers
          /\ paper_index = st.paper_index
          /\ embeddings = st.embeddings
    /\ edges_seen \in KnownEdgeSets(MaxEdges)
    /\ n_edges = Cardinality(edges_seen)
    /\ citation_matrix =
         MatrixOfSet(edges_seen, [matrix |-> lil_matrix(Len(papers)),
                                  error |-> "none"]).matrix
    /\ model = BertEncoder
    /\ query = ""
    /\ recommendations = <<>>
    /\ scores_out = <<>>
    /\ nx_nodes = <<>>
    /\ pagerank_scores = <<>>
    /\ hub_scores = <<>>
    /\ authority_scores = <<>>
    /\ centrality = <<>>
    /\ normalized_scores = <<>>
    /\ final_scores = <<>>
    /\ top_papers_final = <<>>
    /\ NoGraph
    /\ NoTraining
    /\ NoDriver
    /\ embed_calls = NoCalls

NextNotebook == BuildPairs \/ TrainAndEvaluate \/ Recommend

SpecNotebook == InitNotebook /\ [][NextNotebook]_vars

\* The corpus papers (1-based) whose embedding has norm zero.
ZeroNormPapers == { i \in 1..Len(papers) : Norm(embeddings[i]) = 0 }

\* C21: the similarity of a zero-norm embedding to any embedding is 0, in
\* the similarity matrix (and the feature column made from it) and in the
\* scores of a query, and neither the cell of the similarity matrix nor
\* recommend raises.
C21_ZeroNormGivesZero ==
    /\ PairsBuilt =>
          \A i, j \in 1..Len(papers) :
              (i \in ZeroNormPapers \/ j \in ZeroNormPapers) =>
                 /\ similarities[<<i - 1, j - 1>>] = 0
                 /\ pair_similarities[(i - 1) * Len(papers) + j] = 0
    /\ pc \in {"train", "driver"} => error = "none"
    /\ Answered =>
          \A i \in 1..Len(papers) :
              (i \in ZeroNormPapers \/ Norm(bert_model(query)) = 0) =>
                 RatEq(scores_out[i], predict_proba(model, 0))

C21_Witness ==
    /\ Answered
    /\ error = "none"
    /\ Norm(bert_model(query)) = 0
    /\ ZeroNormPapers # {}
    /\ \E i \in 1..Len(papers) : i \notin ZeroNormPapers
    /\ Len(recommendations) = Len(papers)
    /\ model.coef # 0

\* C30: get_bert_embedding reaches the encoder in every call and recommend
\* reaches a fitted classifier in every call: no cell stops with TypeError
\* or AttributeError, `model` is the encoder until the training cell runs
\* and a classifier from then on, and the scores of every answered query
\* are those of the encoder's embedding under that classifier.
C30_CallsReachTheirObjects ==
    /\ error \notin {"TypeError", "AttributeError"}
    /\ pc \in {"pairs", "train"} => Globals["model"] = BertEncoder
    /\ pc = "driver" => IsFitted(Globals["model"])
    /\ Answered =>
          /\ pc = "driver"
          /\ scores_out = [i \in 1..Len(papers) |->
                             predict_proba(model, cosine_similarity(bert_model(query),
                                                                    embeddings[i]))]

C30_Witness ==
    /\ Answered
    /\ error = "none"
    /\ IsFitted(model)
    /\ Len(fit_log) = 1
    /\ Len(recommendations) = 3
    /\ Norm(bert_model(query)) # 0

-----------------------------------------------------------------------------
(* nx.pagerank and nx.hits computed (SpecFixture).  A score is held in     *)
(* units of 1/ScoreUnit.                                                   *)

ScoreUnit == 10000000

\* The defaults of nx.pagerank: alpha = 0.85 (in hundredths), max_iter = 100,
\* tol = 1.0e-6.
Alpha == 85
MaxIter == 100
Tolerance == ScoreUnit \div 1000000

\* The places (in graph.nodes) of the nodes the node at place j has an edge
\* to, and of the nodes without an edge to any node.
Successors(graph, j) ==
    { i \in 1..Len(graph.nodes) : <<graph.nodes[j], graph.nodes[i]>> \in graph.edges }
Predecessors(graph, i) ==
    { j \in 1..Len(graph.nodes) : <<graph.nodes[j], graph.nodes[i]>> \in graph.edges }
Dangling(graph) == { j \in 1..Len(graph.nodes) : Successors(graph, j) = {} }

\* A variant of the step in which the weight of a node flows to the nodes
\* that cite it.
PageRankEntryReversed(graph, x, i) ==
    LET N == Len(graph.nodes)
        sinks == { j \in 1..N : Predecessors(graph, j) = {} }
        danglesum == SumOver(x, sinks)
    IN (Alpha * (SumOver([j \in 1..N |->
                            IF j \in Successors(graph, i)
                            THEN x[j] \div Cardinality(Predecessors(graph, j)) ELSE 0],
                         1..N)
                 + danglesum \div N)
        + (100 - Alpha) * (ScoreUnit \div N)) \div 100

\* Entry i of alpha * (x @ A + sum(x[is_dangling]) * dangling_weights)
\* + (1 - alpha) * p, with A the adjacency matrix, each row divided by its
\* sum, and p and dangling_weights uniform.
PageRankEntry(graph, x, i) ==
    LET N == Len(graph.nodes)
        danglesum == SumOver(x, Dangling(graph))
    IN (Alpha * (SumOver([j \in 1..N |->
                            IF j \in Predecessors(graph, i)
                            THEN x[j] \div Cardinality(Successors(graph, j)) ELSE 0],
                         1..N)
                 + danglesum \div N)
        + (100 - Alpha) * (ScoreUnit \div N)) \div 100

\* The first n entries of the next vector.
RECURSIVE PageRankStep(_, _, _)
PageRankStep(graph, x, n) ==
    IF n = 0 THEN <<>>
    ELSE Append(PageRankStep(graph, x, n - 1), PageRankEntry(graph, x, n))

\* The vector of n entries 1/N.
RECURSIVE Uniform(_, _)
Uniform(N, n) == IF n = 0 THEN <<>> ELSE Append(Uniform(N, n - 1), ScoreUnit \div N)

Abs(a) == IF a < 0 THEN 0 - a ELSE a

\* The loop of the power iteration: it returns at the first x with
\* sum |x - xlast| < N * tol, and gives up after `iterations` steps.
RECURSIVE PowerIteration(_, _, _)
PowerIteration(graph, xlast, iterations) ==
    IF iterations = 0 THEN [converged |-> FALSE, x |-> xlast]
    ELSE LET N == Len(graph.nodes)
             x == PageRankStep(graph, xlast, N)
             err == SumOver([i \in 1..N |-> Abs(x[i] - xlast[i])], 1..N)
         IN IF err < N * Tolerance THEN [converged |-> TRUE, x |-> x]
            ELSE PowerIteration(graph, x, iterations - 1)

\* nx.pagerank(G): {} for a graph without nodes, else the power iteration
\* from the uniform vector.
pagerank(graph) ==
    LET N == Len(graph.nodes)
    IN IF N = 0 THEN [converged |-> TRUE, x |-> <<>>]
       ELSE PowerIteration(graph, Uniform(N, N), MaxIter)

\* pagerank_scores = nx.pagerank(nx_graph), computed.
PageRankPower ==
    /\ pc = "pagerank"
    /\ LET result == pagerank([nodes |-> nx_nodes, edges |-> nx_edges])
       IN IF result.converged
          THEN /\ pagerank_scores' = [i \in 1..Len(nx_nodes) |-> <<nx_nodes[i], result.x[i]>>]
               /\ pc' = "hits"
               /\ error' = error
          ELSE /\ error' = "PowerIterationFailedConvergence"
               /\ pc' = "failed"
               /\ pagerank_scores' = pagerank_scores
    /\ UNCHANGED <<driverVars, graphVars, trainVars, embed_calls, loadVars, recVars, nx_nodes,
                   hub_scores, authority_scores, centrality, normalized_scores,
                   final_scores, top_papers_final>>

\* The entries a right singular vector of the adjacency matrix is drawn from.
SingularEntries == {0, 1, 2}

\* h = A @ a
HubsOf(graph, a) ==
    [j \in 1..Len(graph.nodes) |-> SumOver(a, Successors(graph, j))]

\* hub_scores, authority_scores = nx.hits(nx_graph): ({}, {}) for a graph
\* without nodes; else a is the right singular vector of the adjacency
\* matrix A for its greatest singular value, which svds computes, and
\* h = A @ a, both divided by their sums.  The vector a is drawn: it is not
\* negative, it is zero at a node no edge leads to (a is in the range of the
\* transpose of A) and A @ a is not zero.
HitsSvd ==
    /\ pc = "hits"
    /\ LET graph == [nodes |-> nx_nodes, edges |-> nx_edges]
           N == Len(nx_nodes)
       IN IF N = 0
          THEN hub_scores' = <<>> /\ authority_scores' = <<>>
          ELSE \E a \in [1..N -> SingularEntries] :
                 LET h == HubsOf(graph, a)
                 IN /\ \A i \in 1..N : Predecessors(graph, i) = {} => a[i] = 0
                    /\ SumOver(h, 1..N) > 0
                    /\ hub_scores' =
                         [i \in 1..N |-> <<nx_nodes[i],
                                           (h[i] * ScoreUnit) \div SumOver(h, 1..N)>>]
                    /\ authority_scores' =
                         [i \in 1..N |-> <<nx_nodes[i],
                                           (a[i] * ScoreUnit) \div SumOver(a, 1..N)>>]
    /\ pc' = "eigenvector"
    /\ UNCHANGED <<driverVars, graphVars, trainVars, embed_calls, error, loadVars, recVars, nx_nodes,
                   pagerank_scores, centrality, normalized_scores, final_scores,
                   top_papers_final>>

MaxFixtureEdges == 3

\* The cites triples between the first three papers, no paper citing itself.
FixtureCites ==
    { <<ArxivUri(k), CITES, ArxivUri(l)>> : k, l \in 1..3 } \
        { <<ArxivUri(k), CITES, ArxivUri(k)>> : k \in 1..3 }

\* The sequences of at most n of these triples, none twice.
FixtureSeqs(n) ==
    UNION { { q \in [1..k -> FixtureCites] : \A i, j \in 1..k : q[i] = q[j] => i = j }
            : k \in 0..n }

\* Task3.ipynb before rdf_to_nx(g): g holds 3 or 4 papers and at most
\* MaxFixtureEdges citations between the first three.
InitFixture ==
    /\ pc = "convert"
    /\ error = "none"
    /\ \E q \in FixtureSeqs(MaxFixtureEdges), n \in {3, 4} : g_triples = q \o TypeTriples(n)
    /\ nx_nodes = <<>>
    /\ nx_edges = {}
    /\ G_paper_simple = EmptyGraph
    /\ g_abstracts = <<>>
    /\ papers = <<>>
    /\ paper_index = <<>>
    /\ embeddings = <<>>
    /\ citation_matrix = <<>>
    /\ edges_seen = {}
    /\ n_edges = 0
    /\ model = NoRec
    /\ query = ""
    /\ recommendations = <<>>
    /\ scores_out = <<>>
    /\ pagerank_scores = <<>>
    /\ hub_scores = <<>>
    /\ authority_scores = <<>>
    /\ centrality = <<>>
    /\ normalized_scores = <<>>
    /\ final_scores = <<>>
    /\ top_papers_final = <<>>
    /\ NoTraining
    /\ NoDriver
    /\ embed_calls = NoCalls

NextFixture == RdfToNx \/ PageRankPower \/ HitsSvd

SpecFixture == InitFixture /\ [][NextFixture]_vars

-----------------------------------------------------------------------------
(* Properties of the computed scores (SpecFixture).                        *)

\* The citations of g as pairs.
CitesPairs == { <<t[1], t[3]>> : t \in CitesTriples }

\* Paper A cites B and C, B cites C, D cites nothing and is not cited.
RoundTripCorpus ==
    /\ TypedPapers = { ArxivUri(k) : k \in 1..4 }
    /\ CitesPairs = { <<ArxivUri(1), ArxivUri(2)>>, <<ArxivUri(1), ArxivUri(3)>>,
                      <<ArxivUri(2), ArxivUri(3)>> }

\* C26: for that corpus, PageRank(C) > PageRank(B) > PageRank(A).
C26_PageRankOrder ==
    (RoundTripCorpus /\ pc \in {"hits", "eigenvector", "failed"}) =>
        /\ error = "none"
        /\ {ArxivUri(1), ArxivUri(2), ArxivUri(3)} \subseteq KeySet(pagerank_scores)
        /\ Lookup(pagerank_scores, ArxivUri(3)) > Lookup(pagerank_scores, ArxivUri(2))
        /\ Lookup(pagerank_scores, ArxivUri(2)) > Lookup(pagerank_scores, ArxivUri(1))

C26_Witness ==
    /\ RoundTripCorpus
    /\ pc = "eigenvector"
    /\ nx_nodes[1] = ArxivUri(2)
    /\ Len(pagerank_scores) = 3
    /\ Lookup(pagerank_scores, ArxivUri(1)) > 0

\* P1 cites P2; P2 and P3 cite nothing.
HubCorpus ==
    /\ TypedPapers = { ArxivUri(k) : k \in 1..3 }
    /\ CitesPairs = { <<ArxivUri(1), ArxivUri(2)>> }

\* C27: for that corpus, each of the three papers has a hub score, and the
\* hub score of P1 is greater than that of P2 and than that of P3.
C27_HubOfCitingPaperGreatest ==
    (HubCorpus /\ pc = "eigenvector") =>
        /\ \A k \in 1..3 : ArxivUri(k) \in KeySet(hub_scores)
        /\ Lookup(hub_scores, ArxivUri(1)) > Lookup(hub_scores, ArxivUri(2))
        /\ Lookup(hub_scores, ArxivUri(1)) > Lookup(hub_scores, ArxivUri(3))


-----------------------------------------------------------------------------
(* The driver cell over an input file (SpecDriver): load_input_data reads  *)
(* new_research_papers.jsonl line by line, and the loop calls recommend on *)
(* every record it returned and prints the result.                         *)

MaxLines == 3

\* A line of the file: text json.loads rejects, or the text of a JSON
\* object, given by the dict json.loads returns for it.
InvalidJson == [json |-> FALSE, data |-> <<>>]
JsonObject(record) == [json |-> TRUE, data |-> record]

PaperFields == {"title", "abstract", "discipline"}

\* A new paper with the three fields, and the same one without a field.
NewPaper(text) ==
    [title |-> IF text = "t1" THEN "Paper one" ELSE "Paper two",
     abstract |-> text, discipline |-> "cs"]
Without(record, field) == [f \in DOMAIN record \ {field} |-> record[f]]

FileLines ==
    {InvalidJson}
      \cup {JsonObject(NewPaper(t)) : t \in {"t1", "t2"}}
      \cup {JsonObject(Without(NewPaper("t1"), f)) : f \in PaperFields}

RECURSIVE FilesOf(_)
FilesOf(n) ==
    IF n = 0 THEN {<<>>}
    ELSE FilesOf(n - 1)
           \cup {Append(f, l) : f \in {g \in FilesOf(n - 1) : Len(g) = n - 1},
                                l \in FileLines}

\* What print wrote: the message for a skipped line, or the header and the
\* list printed for an input paper.
SkipMessage == [what |-> "skip", title |-> "", recs |-> <<>>]
RecsMessage(title, recs) == [what |-> "recs", title |-> title, recs |-> recs]

\* load_input_data after the first n lines: json.loads(line) is appended to
\* the list; on JSONDecodeError the line is skipped with a printed message.
\* No other exception is caught, and no field of data is looked at.
RECURSIVE load_input_data(_, _)
load_input_data(lines, n) ==
    IF n = 0 THEN [input_papers |-> <<>>, printed |-> <<>>]
    ELSE LET before == load_input_data(lines, n - 1)
         IN IF lines[n].json
            THEN [before EXCEPT !.input_papers = Append(@, lines[n].data)]
            ELSE [before EXCEPT !.printed = Append(@, SkipMessage)]

\* input_papers = load_input_data('new_research_papers.jsonl')
LoadInputData ==
    /\ pc = "input"
    /\ LET loaded == load_input_data(input_file, Len(input_file))
       IN /\ input_papers' = loaded.input_papers
          /\ printed' = loaded.printed
    /\ pc' = "driver"
    /\ UNCHANGED <<input_file, error, loadVars, recVars, rankVars, graphVars,
                   trainVars, embed_calls>>

\* The input papers the loop has printed recommendations for.
Served == SelectSeq(printed, LAMBDA m : m.what = "recs")

\* One iteration of `for paper in input_papers`: recommend(paper) reads
\* paper['abstract'], then the header is printed from paper['title'] and
\* paper['discipline'].  A key the dict lacks raises KeyError, which nothing
\* catches: the loop and the notebook stop there.
DriverIteration ==
    /\ pc = "driver"
    /\ Len(Served) < Len(input_papers)
    /\ LET paper == input_papers[Len(Served) + 1]
       IN IF "abstract" \notin DOMAIN paper
          THEN /\ error' = "KeyError"
               /\ pc' = "failed"
               /\ UNCHANGED <<query, scores_out, recommendations, embed_calls, printed>>
          ELSE /\ query' = paper["abstract"]
               /\ scores_out' = ScoresFor(Globals["model"], embeddings, paper["abstract"])
               /\ recommendations' =
                    recommend(Globals["model"], papers, embeddings, paper["abstract"])
               /\ embed_calls' = Logged(embed_calls, paper["abstract"])
               /\ IF {"title", "discipline"} \subseteq DOMAIN paper
                  THEN /\ printed' = Append(printed,
                                            RecsMessage(paper["title"], recommendations'))
                       /\ UNCHANGED <<pc, error>>
                  ELSE /\ error' = "KeyError"
                       /\ pc' = "failed"
                       /\ UNCHANGED printed
    /\ UNCHANGED <<input_file, input_papers, loadVars, model, rankVars, graphVars,
                   trainVars>>

\* The driver cell starts with a corpus of two papers, a fitted classifier
\* and an input file of up to MaxLines lines.
InitDriver ==
    /\ pc = "input"
    /\ error = "none"
    /\ g_abstracts \in [1..2 -> {"t1", "t2"}]
    /\ LET st == Extracted(g_abstracts, Len(g_abstracts))
       IN /\ papers = st.papers
          /\ paper_index = st.paper_index
          /\ embeddings = st.embeddings
    /\ edges_seen = {<<ArxivUri(1), ArxivUri(2)>>}
    /\ n_edges = 1
    /\ citation_matrix =
         CiteOne(paper_index, [matrix |-> lil_matrix(Len(papers)), error |-> "none"],
                 ArxivUri(1), ArxivUri(2)).matrix
    /\ model \in Classifiers
    /\ query = ""
    /\ recommendations = <<>>
    /\ scores_out = <<>>
    /\ nx_nodes = <<>>
    /\ pagerank_scores = <<>>
    /\ hub_scores = <<>>
    /\ authority_scores = <<>>
    /\ centrality = <<>>
    /\ normalized_scores = <<>>
    /\ final_scores = <<>>
    /\ top_papers_final = <<>>
    /\ NoGraph
    /\ NoTraining
    /\ embed_calls = NoCalls
    /\ input_file \in FilesOf(MaxLines)
    /\ input_papers = <<>>
    /\ printed = <<>>

NextDriver == LoadInputData \/ DriverIteration

SpecDriver == InitDriver /\ [][NextDriver]_vars

\* The lines of the file that hold a record with the three fields, and the
\* other lines.
WellFormed(line) == line.json /\ DOMAIN line.data = PaperFields
WellFormedPapers == [k \in 1..Len(SelectSeq(input_file, WellFormed)) |->
                       SelectSeq(input_file, WellFormed)[k].data]
Malformed == SelectSeq(input_file, LAMBDA l : ~WellFormed(l))

\* The loop has gone through the whole list.
DriverDone == pc = "driver" /\ Len(Served) = Len(input_papers)

\* C22: a malformed line of the input file (text that is no JSON, or a
\* record lacking title, abstract or discipline) never aborts the run: the
\* run does not fail, and once the loop is through, one message has been
\* printed for every malformed line and every well-formed record has its
\* recommendations printed, in the order of the file.
C22_MalformedSkippedNeverAborts ==
    /\ pc # "failed"
    /\ DriverDone =>
         /\ Len(printed) - Len(Served) = Len(Malformed)
         /\ Len(Served) = Len(WellFormedPapers)
         /\ \A k \in 1..Len(Served) :
              Served[k] = RecsMessage(WellFormedPapers[k].title,
                                      recommend(model, papers, embeddings,
                                                WellFormedPapers[k].abstract))

====
